---- MODULE Spec2Model ----
(***************************************************************************)
(* Model of livekit-plugins-dashscope.                                     *)
(*                                                                         *)
(*  - Spec / FairSpec : one streaming request, SynthesizeStream._main_task *)
(*    of tts_v2_queue.py: the three stage tasks, the audio queue           *)
(*    (_callback_queue), the completion event, the backend callbacks       *)
(*    (running on the backend's own thread) and an external cancellation.  *)
(*  - CfgSpec : construction of TTS (tts.py) and TTSV2 (tts_v2_queue.py).  *)
(*  - TokSpec : ChineseSentenceTokenizer (sentence_tokenizer.py).          *)
(*  - StreamSpec : the stream of ChineseSentenceTokenizer.                 *)
(*  - WordSpec : ChineseWordTokenizer (word_tokenizer.py).                 *)
(*  - RecordedSpec : Spec, with the calls of the caller and of the intake  *)
(*    stage recorded.                                                      *)
(*  - ChunkSpec : ChunkedStream._main_task of tts.py and tts_v2_queue.py.  *)
(*  - SttSpec : SpeechStream of stt.py and its backend callbacks.          *)
(***************************************************************************)
EXTENDS Integers, Sequences, FiniteSets, TLC

\* ------------------------------------------------------------------ bounds
\* Items (text fragments and flush markers) the upstream producer pushes.
MaxPush == 2
\* on_data deliveries of the backend in one request.
MaxData == 2
\* Largest byte count of one on_data delivery.
MaxChunk == 3
\* Bytes of one full audio frame of the chunker (AudioByteStream).
FrameBytes == 2

VARIABLES
    \* --- upstream producer / _input_ch (tts_v2_queue.py:115)
    inputCh,          \* items waiting in _input_ch: "part", "full" or "flush"
    inputClosed,      \* end-of-input signalled (_input_ch closed)
    nPushed,          \* items pushed so far
    \* --- _sent_tokenizer_stream (tts_v2_queue.py:93)
    stBuf,            \* the stream buffers text not yet emitted as a unit
    tokQ,             \* units emitted and not yet consumed by the dispatch stage
    tokClosed,        \* end_input() was called on the stream
    nUnits,           \* units emitted so far (unit k is the k-th emitted)
    \* --- tasks
    pcMain,           \* "init", "await", "failed", "cancelled"
    mainAwait,        \* index into AwaitOrder of the task _main_task awaits
    mainCause,        \* what ended the try block: "none", "Exception", "CancelledError"
    mainErr,          \* the exception _main_task ended with
    mustCancel,       \* _main_task has a CancelledError pending
    cancelRequested,  \* the external cancellation happened
    cancelAt,         \* position of the dispatch stage when it happened
    hops,             \* task steps of the cancellation chain
    pcIn,             \* text_input_task
    pcSent,           \* sentence_stream_task
    pcOut,            \* audio_output_task
    cancelReq,        \* per stage task: a CancelledError is pending
    running,          \* the task that holds the event loop in the middle of a step
    firstErr,         \* the stage that raised first ("none" when none did)
    \* --- coordinator objects
    completeEvent,    \* _complete_event
    queue,            \* _callback_queue: frames waiting
    qClosed,          \* _callback_queue closed
    waiter,           \* the getter future of the output stage: "none", "pending", "woken"
    evClosed,         \* _event_ch closed
    delivered,        \* frames forwarded to the downstream consumer (_event_ch)
    \* --- backend session
    sends,            \* units handed to synthesizer.streaming_call, in call order
    sendOk,           \* streaming_call invocations that returned
    completeCalls,    \* streaming_complete invocations
    execState,        \* streaming_complete in the executor: "idle","running","returned","raised"
    backendErr,       \* the backend reported on_error
    onCompleteDone,   \* Callback.on_complete ran
    nData,            \* on_data deliveries so far
    buf,              \* bytes retained by the chunker
    nEnq,             \* frames enqueued so far (frame k is the k-th enqueued)
    deliveredAtFirstSend, \* frames already forwarded when the first send was issued
    \* --- Callback and its chunker (audio_byte_stream)
    requestId,        \* request_id of _main_task, kept by the Callback
    segmentId,        \* segment_id of _main_task, kept by the Callback
    nBytes,           \* bytes passed to on_data so far (byte k is the k-th passed)
    bufBytes,         \* the bytes the chunker retains
    frameData,        \* frameData[k]: the bytes of frame k
    frameTags,        \* frameTags[k]: <<request_id, segment_id>> of the item of frame k
    flushFrame,       \* the frame on_complete flushed (0: none)
    enqAtComplete,    \* frames enqueued when on_complete returned
    lateData,         \* on_data deliveries that came after on_complete
    \* --- calls in the order they were made, in runs that record them
    recording,        \* the run records the calls
    pushLog,          \* what the caller put on _input_ch: "part", "full", "flush"
    streamCalls       \* the calls text_input_task made on _sent_tokenizer_stream

coordVars == <<inputCh, inputClosed, nPushed, stBuf, tokQ, tokClosed, nUnits,
               pcMain, mainAwait, mainCause, mainErr, mustCancel, cancelRequested,
               cancelAt, hops, pcIn, pcSent, pcOut, cancelReq, running, firstErr,
               completeEvent, queue, qClosed, waiter, evClosed, delivered,
               sends, sendOk, completeCalls, execState, backendErr, onCompleteDone,
               nData, buf, nEnq, deliveredAtFirstSend,
               requestId, segmentId, nBytes, bufBytes, frameData, frameTags,
               flushFrame, enqAtComplete, lateData, recording, pushLog, streamCalls>>

logVars == <<recording, pushLog, streamCalls>>

\* The variables of the Callback.
cbVars == <<requestId, segmentId, nBytes, bufBytes, frameData, frameTags,
            flushFrame, enqAtComplete, lateData>>

VARIABLES
    \* --- construction of TTS / TTSV2
    cfgClass,         \* the class constructed: "none", "TTS", "TTSV2"
    cfgArgs,          \* the constructor's arguments
    cfgEnv,           \* the environment variable DASHSCOPE_API_KEY
    cfgResult,        \* "none", "ok" (an instance exists), "ValueError"
    cfgOpts,          \* the instance's _opts (volume, rate, pitch)
    cfgCalls,         \* synthesize() / stream() calls on the instance
    \* --- ChineseSentenceTokenizer
    tkText,           \* the text given
    tkMinLen,         \* min_sentence_len of the tokenizer
    tkOp,             \* the method applied: "none", "split", "tokenize", "complete"
    tkOut,            \* the list returned by _split_sentences / tokenize
    tkBool,           \* the value returned by _is_sentence_complete
    \* --- the stream returned by ChineseSentenceTokenizer.stream()
    ssCtxLen,         \* stream_context_len of the tokenizer
    ssRest,           \* the part of the text not pushed yet
    ssInBuf,          \* text pushed and not yet emitted
    ssOutBuf,         \* raw sentences merged and not yet emitted
    ssUnits,          \* units emitted so far
    ssClosed,         \* end_input() was called
    \* --- ChineseWordTokenizer
    wdText,           \* the text given
    wdIgnore,         \* ignore_punctuation of the tokenizer
    wdOp,             \* the method applied: "none", "split", "tokenize"
    wdOut             \* the list returned by _split_words

cfgVars == <<cfgClass, cfgArgs, cfgEnv, cfgResult, cfgOpts, cfgCalls>>

streamVars == <<ssCtxLen, ssRest, ssInBuf, ssOutBuf, ssUnits, ssClosed>>

wordVars == <<wdText, wdIgnore, wdOp, wdOut>>

tokVars == <<tkText, tkMinLen, tkOp, tkOut, tkBool, streamVars, wordVars>>

VARIABLES
    \* --- ChunkedStream._main_task (tts.py, tts_v2_queue.py)
    ckImpl,           \* the module of the ChunkedStream: "none", "tts", "tts_v2_queue"
    pcChunk,          \* "idle", "init", "calling", "done", "failed"
    ckAudio,          \* audio bytes the backend returned so far (byte k is the k-th)
    ckEvents,         \* on_event callbacks so far
    ckBuf,            \* the bytes the chunker (audio_bstream) retains
    ckFrames,         \* the frames sent to _event_ch, each the sequence of its bytes
    \* --- SpeechStream (stt.py)
    pcStt,            \* _main_task: "idle", "init", "running", "ended"
    sttItems,         \* items of _input_ch processed so far
    sttSpeaking,      \* _speaking
    sttEvClosed,      \* _event_ch closed
    sttEvents,        \* the types of the events sent to _event_ch, in order
    sttCalls          \* the backend's callbacks so far, each with what it left

chunkVars == <<ckImpl, pcChunk, ckAudio, ckEvents, ckBuf, ckFrames>>

sttVars == <<pcStt, sttItems, sttSpeaking, sttEvClosed, sttEvents, sttCalls>>

\* The variables of the non-streaming synthesis and of the recognition stream.
auxVars == <<chunkVars, sttVars>>

vars == <<coordVars, cfgVars, tokVars, auxVars>>

Stages == {"input", "sentence", "output"}
Finished == {"done", "cancelled", "failed"}

\* The order in which _main_task awaits the stage tasks.
AwaitOrder == <<"input", "sentence", "output">>

PcOf(t) == IF t = "input" THEN pcIn ELSE IF t = "sentence" THEN pcSent ELSE pcOut

\* No task is in the middle of a step: the event loop may start the next step.
LoopIdle == running = "none"

\* The request as SynthesizeStream.__init__ leaves it.
Constructed ==
    /\ inputCh = <<>> /\ inputClosed = FALSE /\ nPushed = 0
    /\ stBuf = FALSE /\ tokQ = <<>> /\ tokClosed = FALSE /\ nUnits = 0
    /\ pcMain = "init" /\ mainAwait = 1 /\ mainCause = "none" /\ mainErr = "none"
    /\ mustCancel = FALSE /\ cancelRequested = FALSE /\ cancelAt = "none" /\ hops = 0
    /\ pcIn = "nc" /\ pcSent = "nc" /\ pcOut = "nc"
    /\ cancelReq = [t \in Stages |-> FALSE]
    /\ running = "none" /\ firstErr = "none"
    /\ completeEvent = FALSE /\ queue = <<>> /\ qClosed = FALSE /\ waiter = "none"
    /\ evClosed = FALSE /\ delivered = <<>>
    /\ sends = <<>> /\ sendOk = 0 /\ completeCalls = 0 /\ execState = "idle"
    /\ backendErr = FALSE /\ onCompleteDone = FALSE /\ nData = 0 /\ buf = 0 /\ nEnq = 0
    /\ deliveredAtFirstSend = 0
    /\ requestId = "unset" /\ segmentId = "unset"
    /\ nBytes = 0 /\ bufBytes = <<>> /\ frameData = <<>> /\ frameTags = <<>>
    /\ flushFrame = 0 /\ enqAtComplete = 0 /\ lateData = 0
    /\ pushLog = <<>> /\ streamCalls = <<>>

CoordInit == Constructed /\ recording = FALSE


\* ------------------------------------------------------- upstream producer
\* SynthesizeStream.push_text / flush: one item is put on _input_ch. A text
\* fragment is "full" when it completes a sentence unit and "part" otherwise.
Push(kind) ==
    /\ LoopIdle /\ ~inputClosed /\ nPushed < MaxPush
    /\ inputCh' = Append(inputCh, kind)
    /\ nPushed' = nPushed + 1
    /\ pushLog' = IF recording THEN Append(pushLog, kind) ELSE pushLog
    /\ UNCHANGED <<auxVars, cfgVars, tokVars, recording, streamCalls, cbVars, inputClosed, stBuf, tokQ, tokClosed, nUnits,
                   pcMain, mainAwait, mainCause, mainErr, mustCancel, cancelRequested,
                   cancelAt, hops, pcIn, pcSent, pcOut, cancelReq, running, firstErr,
                   completeEvent, queue, qClosed, waiter, evClosed, delivered,
                   sends, sendOk, completeCalls, execState, backendErr, onCompleteDone,
                   nData, buf, nEnq, deliveredAtFirstSend>>

PushText == \E kind \in {"part", "full"} : Push(kind)

PushFlush == Push("flush")

\* SynthesizeStream.end_input: _input_ch is closed.
EndInput ==
    /\ LoopIdle /\ ~inputClosed
    /\ inputClosed' = TRUE
    /\ UNCHANGED <<auxVars, cfgVars, tokVars, logVars, cbVars, inputCh, nPushed, stBuf, tokQ, tokClosed, nUnits,
                   pcMain, mainAwait, mainCause, mainErr, mustCancel, cancelRequested,
                   cancelAt, hops, pcIn, pcSent, pcOut, cancelReq, running, firstErr,
                   completeEvent, queue, qClosed, waiter, evClosed, delivered,
                   sends, sendOk, completeCalls, execState, backendErr, onCompleteDone,
                   nData, buf, nEnq, deliveredAtFirstSend>>

\* ------------------------------------------------ the segmentation stream
\* _sent_tokenizer_stream, as the intake stage drives it. st is
\* [buf, q, n]: text buffered, units waiting, units emitted.
StreamEmit(st) == [buf |-> FALSE, q |-> Append(st.q, st.n + 1), n |-> st.n + 1]

\* push_text(data)
StreamPush(st, kind) == IF kind = "full" THEN StreamEmit(st) ELSE [st EXCEPT !.buf = TRUE]

\* flush()
StreamFlush(st) == IF st.buf THEN StreamEmit(st) ELSE st

\* A loop without the isinstance test: the flush sentinel is pushed as text.
CallForPushesSentinel(item) == <<"push_text", item>>

\* The call the loop of text_input_task makes for one item of _input_ch.
CallFor(item) == IF item = "flush" THEN <<"flush">> ELSE <<"push_text", item>>

\* The calls the loop makes for the items available, in their order.
CallsFor(items) == [i \in 1..Len(items) |-> CallFor(items[i])]

\* The body of the loop of text_input_task over the items available.
RECURSIVE Intake(_, _)
Intake(items, st) ==
    IF items = <<>> THEN st
    ELSE LET call == CallFor(Head(items))
         IN  Intake(Tail(items),
                    IF call[1] = "flush" THEN StreamFlush(st)
                                         ELSE StreamPush(st, call[2]))

\* ------------------------------------------------------------ intake stage
\* One step of text_input_task: it consumes every item available on
\* _input_ch; once the channel is closed and empty it calls end_input() and
\* completes, otherwise it suspends on the channel.
In_Run ==
    /\ LoopIdle /\ ~cancelReq["input"]
    /\ \/ pcIn = "start"
       \/ pcIn = "recv" /\ (inputCh # <<>> \/ inputClosed)
    /\ LET st == Intake(inputCh, [buf |-> stBuf, q |-> tokQ, n |-> nUnits])
           fin == IF inputClosed THEN StreamFlush(st) ELSE st
       IN  /\ stBuf' = fin.buf /\ tokQ' = fin.q /\ nUnits' = fin.n
           /\ tokClosed' = inputClosed
           /\ pcIn' = IF inputClosed THEN "done" ELSE "recv"
    /\ inputCh' = <<>>
    /\ streamCalls' = IF recording
                       THEN streamCalls \o CallsFor(inputCh)
                                \o (IF inputClosed THEN << <<"end_input">> >> ELSE <<>>)
                       ELSE streamCalls
    /\ UNCHANGED <<auxVars, cfgVars, tokVars, recording, pushLog, cbVars, inputClosed, nPushed,
                   pcMain, mainAwait, mainCause, mainErr, mustCancel, cancelRequested,
                   cancelAt, hops, pcSent, pcOut, cancelReq, running, firstErr,
                   completeEvent, queue, qClosed, waiter, evClosed, delivered,
                   sends, sendOk, completeCalls, execState, backendErr, onCompleteDone,
                   nData, buf, nEnq, deliveredAtFirstSend>>

\* CancelledError thrown into text_input_task: end_input() is not called.
In_Cancelled ==
    /\ LoopIdle /\ cancelReq["input"] /\ pcIn \in {"start", "recv"}
    /\ pcIn' = "cancelled"
    /\ cancelReq' = [cancelReq EXCEPT !["input"] = FALSE]
    /\ hops' = hops + 1
    /\ UNCHANGED <<auxVars, cfgVars, tokVars, logVars, cbVars, inputCh, inputClosed, nPushed, stBuf, tokQ, tokClosed, nUnits,
                   pcMain, mainAwait, mainCause, mainErr, mustCancel, cancelRequested,
                   cancelAt, pcSent, pcOut, running, firstErr,
                   completeEvent, queue, qClosed, waiter, evClosed, delivered,
                   sends, sendOk, completeCalls, execState, backendErr, onCompleteDone,
                   nData, buf, nEnq, deliveredAtFirstSend>>

\* ---------------------------------------------------------- dispatch stage
\* A step of sentence_stream_task may start (the loop is idle and no
\* cancellation is pending) or go on (the task holds the loop).
SentMayRun ==
    /\ pcSent \in {"start", "iter"}
    /\ ~cancelReq["sentence"]
    /\ \/ LoopIdle
       \/ running = "sentence"

\* First step with nothing to read: the task suspends on the stream.
Sent_Start ==
    /\ pcSent = "start" /\ LoopIdle /\ ~cancelReq["sentence"]
    /\ tokQ = <<>> /\ ~tokClosed
    /\ pcSent' = "iter"
    /\ UNCHANGED <<auxVars, cfgVars, tokVars, logVars, cbVars, inputCh, inputClosed, nPushed, stBuf, tokQ, tokClosed, nUnits,
                   pcMain, mainAwait, mainCause, mainErr, mustCancel, cancelRequested,
                   cancelAt, hops, pcIn, pcOut, cancelReq, running, firstErr,
                   completeEvent, queue, qClosed, waiter, evClosed, delivered,
                   sends, sendOk, completeCalls, execState, backendErr, onCompleteDone,
                   nData, buf, nEnq, deliveredAtFirstSend>>

\* Mutant of NextUnit: the newest unit is taken first.
NextUnitNewest == tokQ[Len(tokQ)]

\* The unit the dispatch stage hands to the backend next.
NextUnit == Head(tokQ)

\* synthesizer.streaming_call(ev.token) returns. The call blocks the event
\* loop; the task goes on with the next unit when one is available (or the
\* stream has ended) and suspends on the stream otherwise.
Sent_Send ==
    /\ SentMayRun /\ tokQ # <<>>
    /\ sends' = Append(sends, NextUnit)
    /\ sendOk' = sendOk + 1
    /\ deliveredAtFirstSend' = IF sends = <<>> THEN Len(delivered) ELSE deliveredAtFirstSend
    /\ tokQ' = Tail(tokQ)
    /\ pcSent' = "iter"
    /\ running' = IF Tail(tokQ) # <<>> \/ tokClosed THEN "sentence" ELSE "none"
    /\ UNCHANGED <<auxVars, cfgVars, tokVars, logVars, cbVars, inputCh, inputClosed, nPushed, stBuf, tokClosed, nUnits,
                   pcMain, mainAwait, mainCause, mainErr, mustCancel, cancelRequested,
                   cancelAt, hops, pcIn, pcOut, cancelReq, firstErr,
                   completeEvent, queue, qClosed, waiter, evClosed, delivered,
                   completeCalls, execState, backendErr, onCompleteDone,
                   nData, buf, nEnq>>

\* synthesizer.streaming_call(ev.token) raises: the finally block sets the
\* completion event and the task ends with the error.
Sent_SendRaises ==
    /\ SentMayRun /\ tokQ # <<>>
    /\ sends' = Append(sends, NextUnit)
    /\ deliveredAtFirstSend' = IF sends = <<>> THEN Len(delivered) ELSE deliveredAtFirstSend
    /\ tokQ' = Tail(tokQ)
    /\ completeEvent' = TRUE
    /\ pcSent' = "failed"
    /\ firstErr' = IF firstErr = "none" THEN "sentence" ELSE firstErr
    /\ running' = "none"
    /\ UNCHANGED <<auxVars, cfgVars, tokVars, logVars, cbVars, inputCh, inputClosed, nPushed, stBuf, tokClosed, nUnits,
                   pcMain, mainAwait, mainCause, mainErr, mustCancel, cancelRequested,
                   cancelAt, hops, pcIn, pcOut, cancelReq,
                   queue, qClosed, waiter, evClosed, delivered,
                   sendOk, completeCalls, execState, backendErr, onCompleteDone,
                   nData, buf, nEnq>>

\* A stage that hands streaming_complete to the executor without awaiting it.
SentLeavesExecutor == "done"

\* Where the stage is after run_in_executor(None, streaming_complete): it
\* awaits the executor's future.
SentAfterCompleteCall == "completing"

\* The stream has ended: streaming_complete is handed to the executor and
\* the task suspends on its future.
Sent_Complete ==
    /\ SentMayRun /\ tokQ = <<>> /\ tokClosed
    /\ completeCalls' = completeCalls + 1
    /\ execState' = "running"
    /\ pcSent' = SentAfterCompleteCall
    /\ running' = "none"
    /\ UNCHANGED <<auxVars, cfgVars, tokVars, logVars, cbVars, inputCh, inputClosed, nPushed, stBuf, tokQ, tokClosed, nUnits,
                   pcMain, mainAwait, mainCause, mainErr, mustCancel, cancelRequested,
                   cancelAt, hops, pcIn, pcOut, cancelReq, firstErr,
                   completeEvent, queue, qClosed, waiter, evClosed, delivered,
                   sends, sendOk, backendErr, onCompleteDone,
                   nData, buf, nEnq, deliveredAtFirstSend>>

\* The executor future is done: the finally block sets the completion event.
Sent_ExecDone ==
    /\ pcSent = "completing" /\ LoopIdle /\ ~cancelReq["sentence"]
    /\ execState \in {"returned", "raised"}
    /\ completeEvent' = TRUE
    /\ pcSent' = IF execState = "returned" THEN "done" ELSE "failed"
    /\ firstErr' = IF execState = "raised" /\ firstErr = "none" THEN "sentence" ELSE firstErr
    /\ UNCHANGED <<auxVars, cfgVars, tokVars, logVars, cbVars, inputCh, inputClosed, nPushed, stBuf, tokQ, tokClosed, nUnits,
                   pcMain, mainAwait, mainCause, mainErr, mustCancel, cancelRequested,
                   cancelAt, hops, pcIn, pcOut, cancelReq, running,
                   queue, qClosed, waiter, evClosed, delivered,
                   sends, sendOk, completeCalls, execState, backendErr, onCompleteDone,
                   nData, buf, nEnq, deliveredAtFirstSend>>

\* Mutant of SentAfterCancel: the task swallows the CancelledError and
\* stays where it is.
SentSwallowsCancel == pcSent

\* What a CancelledError thrown into sentence_stream_task at its await
\* leaves: the finally block runs and the task ends cancelled.
SentAfterCancel == "cancelled"

\* CancelledError thrown into sentence_stream_task (suspended on the stream
\* or on the executor future; streaming_complete keeps running in its
\* thread).
Sent_Cancelled ==
    /\ LoopIdle /\ cancelReq["sentence"] /\ pcSent \in {"iter", "completing"}
    /\ pcSent' = SentAfterCancel
    /\ completeEvent' = (SentAfterCancel = "cancelled" \/ completeEvent)
    /\ cancelReq' = [cancelReq EXCEPT !["sentence"] = FALSE]
    /\ hops' = hops + 1
    /\ UNCHANGED <<auxVars, cfgVars, tokVars, logVars, cbVars, inputCh, inputClosed, nPushed, stBuf, tokQ, tokClosed, nUnits,
                   pcMain, mainAwait, mainCause, mainErr, mustCancel, cancelRequested,
                   cancelAt, pcIn, pcOut, running, firstErr,
                   queue, qClosed, waiter, evClosed, delivered,
                   sends, sendOk, completeCalls, execState, backendErr, onCompleteDone,
                   nData, buf, nEnq, deliveredAtFirstSend>>

\* ------------------------------------------------------------ output stage
\* audio_output_task is at the test of Chan.recv (is the queue empty?), at
\* its first step or in the middle of one.
OutAtCheck ==
    /\ ~cancelReq["output"]
    /\ \/ pcOut = "start" /\ LoopIdle
       \/ pcOut = "loop" /\ running = "output"

\* A frame is waiting: it is taken and forwarded with
\* _event_ch.send_nowait, and the loop goes on.
Out_Forward ==
    /\ OutAtCheck /\ queue # <<>> /\ ~evClosed
    /\ delivered' = Append(delivered, Head(queue))
    /\ queue' = Tail(queue)
    /\ pcOut' = "loop" /\ running' = "output"
    /\ UNCHANGED <<auxVars, cfgVars, tokVars, logVars, cbVars, inputCh, inputClosed, nPushed, stBuf, tokQ, tokClosed, nUnits,
                   pcMain, mainAwait, mainCause, mainErr, mustCancel, cancelRequested,
                   cancelAt, hops, pcIn, pcSent, cancelReq, firstErr,
                   completeEvent, qClosed, waiter, evClosed,
                   sends, sendOk, completeCalls, execState, backendErr, onCompleteDone,
                   nData, buf, nEnq, deliveredAtFirstSend>>

\* _event_ch is closed (the request has ended): send_nowait raises, the
\* finally block closes the audio queue and the task ends with the error.
Out_ForwardRaises ==
    /\ OutAtCheck /\ queue # <<>> /\ evClosed
    /\ queue' = Tail(queue)
    /\ qClosed' = TRUE
    /\ pcOut' = "failed" /\ running' = "none"
    /\ firstErr' = IF firstErr = "none" THEN "output" ELSE firstErr
    /\ UNCHANGED <<auxVars, cfgVars, tokVars, logVars, cbVars, inputCh, inputClosed, nPushed, stBuf, tokQ, tokClosed, nUnits,
                   pcMain, mainAwait, mainCause, mainErr, mustCancel, cancelRequested,
                   cancelAt, hops, pcIn, pcSent, cancelReq,
                   completeEvent, waiter, evClosed, delivered,
                   sends, sendOk, completeCalls, execState, backendErr, onCompleteDone,
                   nData, buf, nEnq, deliveredAtFirstSend>>

\* The queue is seen empty (and open): the task goes on to register a getter.
\* The backend thread may run between this test and the registration.
Out_SeeEmpty ==
    /\ OutAtCheck /\ queue = <<>>
    /\ pcOut' = "register" /\ running' = "output"
    /\ UNCHANGED <<auxVars, cfgVars, tokVars, logVars, cbVars, inputCh, inputClosed, nPushed, stBuf, tokQ, tokClosed, nUnits,
                   pcMain, mainAwait, mainCause, mainErr, mustCancel, cancelRequested,
                   cancelAt, hops, pcIn, pcSent, cancelReq, firstErr,
                   completeEvent, queue, qClosed, waiter, evClosed, delivered,
                   sends, sendOk, completeCalls, execState, backendErr, onCompleteDone,
                   nData, buf, nEnq, deliveredAtFirstSend>>

\* The getter future is registered and the task suspends on it.
Out_Register ==
    /\ pcOut = "register"
    /\ waiter' = "pending"
    /\ pcOut' = "waiting" /\ running' = "none"
    /\ UNCHANGED <<auxVars, cfgVars, tokVars, logVars, cbVars, inputCh, inputClosed, nPushed, stBuf, tokQ, tokClosed, nUnits,
                   pcMain, mainAwait, mainCause, mainErr, mustCancel, cancelRequested,
                   cancelAt, hops, pcIn, pcSent, cancelReq, firstErr,
                   completeEvent, queue, qClosed, evClosed, delivered,
                   sends, sendOk, completeCalls, execState, backendErr, onCompleteDone,
                   nData, buf, nEnq, deliveredAtFirstSend>>

\* The getter was woken by a send: the task tests the queue again.
Out_Wake ==
    /\ pcOut = "waiting" /\ waiter = "woken" /\ LoopIdle /\ ~cancelReq["output"]
    /\ waiter' = "none"
    /\ pcOut' = "loop" /\ running' = "output"
    /\ UNCHANGED <<auxVars, cfgVars, tokVars, logVars, cbVars, inputCh, inputClosed, nPushed, stBuf, tokQ, tokClosed, nUnits,
                   pcMain, mainAwait, mainCause, mainErr, mustCancel, cancelRequested,
                   cancelAt, hops, pcIn, pcSent, cancelReq, firstErr,
                   completeEvent, queue, qClosed, evClosed, delivered,
                   sends, sendOk, completeCalls, execState, backendErr, onCompleteDone,
                   nData, buf, nEnq, deliveredAtFirstSend>>

\* CancelledError thrown into audio_output_task suspended on the queue: the
\* finally block closes the queue.
Out_Cancelled ==
    /\ pcOut = "waiting" /\ cancelReq["output"] /\ LoopIdle
    /\ qClosed' = TRUE
    /\ waiter' = "none"
    /\ pcOut' = "cancelled"
    /\ cancelReq' = [cancelReq EXCEPT !["output"] = FALSE]
    /\ hops' = hops + 1
    /\ UNCHANGED <<auxVars, cfgVars, tokVars, logVars, cbVars, inputCh, inputClosed, nPushed, stBuf, tokQ, tokClosed, nUnits,
                   pcMain, mainAwait, mainCause, mainErr, mustCancel, cancelRequested,
                   cancelAt, pcIn, pcSent, running, firstErr,
                   completeEvent, queue, evClosed, delivered,
                   sends, sendOk, completeCalls, execState, backendErr, onCompleteDone,
                   nData, buf, nEnq, deliveredAtFirstSend>>

\* ----------------------------------------------- backend (its own thread)
\* The frames k+1 .. k+n.
NewFrames(k, n) == [i \in 1..n |-> k + i]

\* _callback_queue.send_nowait for n frames: they are appended and a
\* registered getter is woken; on a closed queue the call raises in the
\* backend's thread and nothing is enqueued.
Enqueue(n) ==
    IF qClosed \/ n = 0
    THEN UNCHANGED <<queue, nEnq, waiter>>
    ELSE /\ queue' = queue \o NewFrames(nEnq, n)
         /\ nEnq' = nEnq + n
         /\ waiter' = IF waiter = "pending" THEN "woken" ELSE waiter

\* AudioByteStream.write: the full frames of the bytes b.
RECURSIVE CutFrames(_)
CutFrames(b) ==
    IF Len(b) >= FrameBytes
    THEN <<SubSeq(b, 1, FrameBytes)>> \o CutFrames(SubSeq(b, FrameBytes + 1, Len(b)))
    ELSE <<>>

\* AudioByteStream.write: the bytes of b that stay in the chunker.
Retained(b) == SubSeq(b, (Len(b) \div FrameBytes) * FrameBytes + 1, Len(b))

\* AudioByteStream.flush: what the chunker retains, as one last frame.
FlushFrames(b) == IF b = <<>> THEN <<>> ELSE <<b>>

\* Items whose segment id is made anew by each callback invocation.
TagsOfFreshSegment(fs) == [i \in 1..Len(fs) |-> <<requestId, <<"seg", nData, onCompleteDone>> >>]

\* The item built around each frame carries the Callback's two ids.
TagsOf(fs) == [i \in 1..Len(fs) |-> <<requestId, segmentId>>]

\* A callback that sends the first frame only, as if the loop were an `if`.
SendFirstFrameOnly(fs) ==
    /\ Enqueue(IF fs = <<>> THEN 0 ELSE 1)
    /\ frameData' = IF qClosed \/ fs = <<>> THEN frameData ELSE Append(frameData, fs[1])
    /\ frameTags' = IF qClosed \/ fs = <<>> THEN frameTags
                     ELSE Append(frameTags, <<requestId, segmentId>>)

\* The `for frame in ...: send_nowait(SynthesizedAudio(...))` loop of on_data
\* and on_complete over the frames fs.
SendFrames(fs) ==
    /\ Enqueue(Len(fs))
    /\ frameData' = IF qClosed THEN frameData ELSE frameData \o fs
    /\ frameTags' = IF qClosed THEN frameTags ELSE frameTags \o TagsOf(fs)

\* The body of Callback.on_data(data) for n bytes.
on_data(n) ==
    LET data == [i \in 1..n |-> nBytes + i]
    IN  /\ SendFrames(CutFrames(bufBytes \o data))
        /\ bufBytes' = Retained(bufBytes \o data)
        /\ buf' = (buf + n) % FrameBytes
        /\ nBytes' = nBytes + n
        /\ nData' = nData + 1

\* The session is open: a send has returned and no terminal callback came.
SessionOpen == sendOk > 0 /\ ~onCompleteDone /\ ~backendErr

\* Callback.on_data(data) with n bytes: the chunker returns every full frame.
OnData ==
    /\ SessionOpen /\ nData < MaxData
    /\ \E n \in 1..MaxChunk : on_data(n)
    /\ UNCHANGED <<requestId, segmentId, flushFrame, enqAtComplete, lateData>>
    /\ UNCHANGED <<auxVars, cfgVars, tokVars, logVars, inputCh, inputClosed, nPushed, stBuf, tokQ, tokClosed, nUnits,
                   pcMain, mainAwait, mainCause, mainErr, mustCancel, cancelRequested,
                   cancelAt, hops, pcIn, pcSent, pcOut, cancelReq, running, firstErr,
                   completeEvent, qClosed, evClosed, delivered,
                   sends, sendOk, completeCalls, execState, backendErr, onCompleteDone,
                   deliveredAtFirstSend>>

\* Callback.on_complete(): the chunker is flushed onto the queue.
OnComplete ==
    /\ SessionOpen /\ execState = "running"
    /\ SendFrames(FlushFrames(bufBytes))
    /\ flushFrame' = IF bufBytes # <<>> /\ ~qClosed THEN nEnq + 1 ELSE 0
    /\ enqAtComplete' = nEnq'
    /\ bufBytes' = <<>>
    /\ buf' = 0
    /\ onCompleteDone' = TRUE
    /\ UNCHANGED <<requestId, segmentId, nBytes, lateData>>
    /\ UNCHANGED <<auxVars, cfgVars, tokVars, logVars, inputCh, inputClosed, nPushed, stBuf, tokQ, tokClosed, nUnits,
                   pcMain, mainAwait, mainCause, mainErr, mustCancel, cancelRequested,
                   cancelAt, hops, pcIn, pcSent, pcOut, cancelReq, running, firstErr,
                   completeEvent, qClosed, evClosed, delivered,
                   sends, sendOk, completeCalls, execState, backendErr,
                   nData, deliveredAtFirstSend>>

\* The backend calls on_data after on_complete. on_data tests nothing: the
\* bytes go through the chunker and its frames onto the queue as before.
OnLateData ==
    /\ sendOk > 0 /\ onCompleteDone /\ nData < MaxData
    /\ \E n \in 1..MaxChunk : on_data(n)
    /\ lateData' = lateData + 1
    /\ UNCHANGED <<requestId, segmentId, flushFrame, enqAtComplete>>
    /\ UNCHANGED <<auxVars, cfgVars, tokVars, logVars, inputCh, inputClosed, nPushed, stBuf, tokQ, tokClosed, nUnits,
                   pcMain, mainAwait, mainCause, mainErr, mustCancel, cancelRequested,
                   cancelAt, hops, pcIn, pcSent, pcOut, cancelReq, running, firstErr,
                   completeEvent, qClosed, evClosed, delivered,
                   sends, sendOk, completeCalls, execState, backendErr, onCompleteDone,
                   deliveredAtFirstSend>>

\* The backend reports on_error. Callback does not override on_error (its
\* definition is commented out), so nothing of the request changes.
OnError ==
    /\ SessionOpen
    /\ backendErr' = TRUE
    /\ UNCHANGED <<auxVars, cfgVars, tokVars, logVars, cbVars, inputCh, inputClosed, nPushed, stBuf, tokQ, tokClosed, nUnits,
                   pcMain, mainAwait, mainCause, mainErr, mustCancel, cancelRequested,
                   cancelAt, hops, pcIn, pcSent, pcOut, cancelReq, running, firstErr,
                   completeEvent, queue, qClosed, waiter, evClosed, delivered,
                   sends, sendOk, completeCalls, execState, onCompleteDone,
                   nData, buf, nEnq, deliveredAtFirstSend>>

\* streaming_complete returns in the executor, after the terminal callback.
ExecReturn ==
    /\ execState = "running" /\ (onCompleteDone \/ backendErr)
    /\ execState' = "returned"
    /\ UNCHANGED <<auxVars, cfgVars, tokVars, logVars, cbVars, inputCh, inputClosed, nPushed, stBuf, tokQ, tokClosed, nUnits,
                   pcMain, mainAwait, mainCause, mainErr, mustCancel, cancelRequested,
                   cancelAt, hops, pcIn, pcSent, pcOut, cancelReq, running, firstErr,
                   completeEvent, queue, qClosed, waiter, evClosed, delivered,
                   sends, sendOk, completeCalls, backendErr, onCompleteDone,
                   nData, buf, nEnq, deliveredAtFirstSend>>

\* streaming_complete raises in the executor (no session, a timeout, a
\* backend failure).
ExecRaise ==
    /\ execState = "running" /\ ~onCompleteDone
    /\ execState' = "raised"
    /\ UNCHANGED <<auxVars, cfgVars, tokVars, logVars, cbVars, inputCh, inputClosed, nPushed, stBuf, tokQ, tokClosed, nUnits,
                   pcMain, mainAwait, mainCause, mainErr, mustCancel, cancelRequested,
                   cancelAt, hops, pcIn, pcSent, pcOut, cancelReq, running, firstErr,
                   completeEvent, queue, qClosed, waiter, evClosed, delivered,
                   sends, sendOk, completeCalls, backendErr, onCompleteDone,
                   nData, buf, nEnq, deliveredAtFirstSend>>

\* --------------------------------------------------------------- _main_task
\* What the two utils.shortuuid() calls of _main_task return: two opaque
\* values, different from those of any other request.
IdPairs == {<<"req-1", "seg-1">>}

\* request_id, callback, synthesizer, then the three tasks are created and
\* _main_task suspends on input_task.
Main_Start ==
    /\ pcMain = "init" /\ ~mustCancel /\ LoopIdle
    /\ pcIn' = "start" /\ pcSent' = "start" /\ pcOut' = "start"
    /\ pcMain' = "await" /\ mainAwait' = 1
    /\ \E ids \in IdPairs : requestId' = ids[1] /\ segmentId' = ids[2]
    /\ UNCHANGED <<nBytes, bufBytes, frameData, frameTags, flushFrame, enqAtComplete, lateData>>
    /\ UNCHANGED <<auxVars, cfgVars, tokVars, logVars, inputCh, inputClosed, nPushed, stBuf, tokQ, tokClosed, nUnits,
                   mainCause, mainErr, mustCancel, cancelRequested,
                   cancelAt, hops, cancelReq, running, firstErr,
                   completeEvent, queue, qClosed, waiter, evClosed, delivered,
                   sends, sendOk, completeCalls, execState, backendErr, onCompleteDone,
                   nData, buf, nEnq, deliveredAtFirstSend>>

\* The request was cancelled before _main_task ran: it ends cancelled
\* without creating anything; its done callback closes _event_ch.
Main_CancelledBeforeStart ==
    /\ pcMain = "init" /\ mustCancel /\ LoopIdle
    /\ pcMain' = "cancelled" /\ mainCause' = "CancelledError" /\ mainErr' = "CancelledError"
    /\ mustCancel' = FALSE
    /\ evClosed' = TRUE
    /\ hops' = hops + 1
    /\ UNCHANGED <<auxVars, cfgVars, tokVars, logVars, cbVars, inputCh, inputClosed, nPushed, stBuf, tokQ, tokClosed, nUnits,
                   mainAwait, cancelRequested,
                   cancelAt, pcIn, pcSent, pcOut, cancelReq, running, firstErr,
                   completeEvent, queue, qClosed, waiter, delivered,
                   sends, sendOk, completeCalls, execState, backendErr, onCompleteDone,
                   nData, buf, nEnq, deliveredAtFirstSend>>

\* The three awaits of the try block from the i-th on: the first task that
\* failed or was cancelled ends the block, a task still running suspends
\* _main_task on it, and after the third the block returns.
RECURSIVE Walk(_)
Walk(i) ==
    IF i > Len(AwaitOrder) THEN [kind |-> "return", at |-> i]
    ELSE LET s == PcOf(AwaitOrder[i]) IN
         IF s = "failed" THEN [kind |-> "Exception", at |-> i]
         ELSE IF s = "cancelled" THEN [kind |-> "CancelledError", at |-> i]
         ELSE IF s = "done" THEN Walk(i + 1)
         ELSE [kind |-> "suspend", at |-> i]

\* The arguments of gracefully_cancel in the finally block: the first is the
\* coroutine function text_input_task, not the task input_task.
CleanupArgs == <<"function", "task", "task">>

\* gracefully_cancel registers a done callback on each argument in turn and
\* cancels it: on an argument that is no task it raises AttributeError.
\* The tasks it reached before that are the ones it cancelled.
CleanupCancels ==
    {AwaitOrder[i] : i \in {j \in 1..Len(CleanupArgs) :
                               \A k \in 1..j : CleanupArgs[k] = "task"}}

CleanupRaises == \E i \in 1..Len(CleanupArgs) : CleanupArgs[i] # "task"

\* _main_task is resumed: the awaited task is finished, or a CancelledError
\* is pending. When the try block ends, the finally block runs in the same
\* step and the done callback of the task closes _event_ch.
Main_Resume ==
    /\ pcMain = "await" /\ LoopIdle
    /\ pcSent # "start" /\ pcOut # "start"
    /\ mustCancel \/ PcOf(AwaitOrder[mainAwait]) \in Finished
    /\ LET r == IF mustCancel THEN [kind |-> "CancelledError", at |-> mainAwait]
                ELSE Walk(mainAwait)
       IN  IF r.kind = "suspend"
           THEN /\ mainAwait' = r.at
                /\ UNCHANGED <<pcMain, mainCause, mainErr, mustCancel, evClosed, hops, cancelReq>>
           ELSE /\ mainAwait' = r.at
                /\ mainCause' = r.kind
                /\ mustCancel' = FALSE
                /\ cancelReq' = [t \in Stages |->
                                   cancelReq[t] \/ (t \in CleanupCancels /\ PcOf(t) \notin Finished)]
                /\ IF CleanupRaises
                   THEN pcMain' = "failed" /\ mainErr' = "AttributeError"
                   ELSE /\ pcMain' = CASE r.kind = "return" -> "done"
                                      [] r.kind = "Exception" -> "failed"
                                      [] OTHER -> "cancelled"
                        /\ mainErr' = IF r.kind = "return" THEN "none" ELSE r.kind
                /\ evClosed' = TRUE
                /\ hops' = IF cancelRequested THEN hops + 1 ELSE hops
    /\ UNCHANGED <<auxVars, cfgVars, tokVars, logVars, cbVars, inputCh, inputClosed, nPushed, stBuf, tokQ, tokClosed, nUnits,
                   cancelRequested, cancelAt, pcIn, pcSent, pcOut, running, firstErr,
                   completeEvent, queue, qClosed, waiter, delivered,
                   sends, sendOk, completeCalls, execState, backendErr, onCompleteDone,
                   nData, buf, nEnq, deliveredAtFirstSend>>

\* ------------------------------------------------- external cancellation
\* The task that Task.cancel() on _main_task reaches: the stage task it is
\* suspended on, when that task is not finished yet.
CancelTarget ==
    IF pcMain = "await" /\ PcOf(AwaitOrder[mainAwait]) \notin Finished
    THEN {AwaitOrder[mainAwait]} ELSE {}

\* The caller cancels the request (aclose): Task.cancel() on _main_task
\* cancels the task it awaits, or leaves the CancelledError pending on
\* _main_task itself when there is none.
Cancel ==
    /\ ~cancelRequested /\ LoopIdle /\ pcMain \in {"init", "await"}
    /\ cancelRequested' = TRUE
    /\ cancelAt' = pcSent
    /\ cancelReq' = [t \in Stages |-> cancelReq[t] \/ t \in CancelTarget]
    /\ mustCancel' = (CancelTarget = {})
    /\ UNCHANGED <<auxVars, cfgVars, tokVars, logVars, cbVars, inputCh, inputClosed, nPushed, stBuf, tokQ, tokClosed, nUnits,
                   pcMain, mainAwait, mainCause, mainErr, hops,
                   pcIn, pcSent, pcOut, running, firstErr,
                   completeEvent, queue, qClosed, waiter, evClosed, delivered,
                   sends, sendOk, completeCalls, execState, backendErr, onCompleteDone,
                   nData, buf, nEnq, deliveredAtFirstSend>>

\* ------------------------------------------- construction of TTS / TTSV2
\* Rates and pitches are counted in tenths: 5 is 0.5 and 20 is 2.0.
VolumeMin == 0
VolumeMax == 100
RateMin == 5
RateMax == 20
PitchMin == 5
PitchMax == 20

\* None, and the values of api_key and of the environment variable.
None == "<None>"
Keys == {None, "", "sk-key"}

Volumes == {VolumeMin - 1, VolumeMin, 50, VolumeMax, VolumeMax + 1}
Rates == {RateMin - 1, RateMin, 10, RateMax, RateMax + 1}
Pitches == {PitchMin - 1, PitchMin, 10, PitchMax, PitchMax + 1}

CfgArgs == [volume : Volumes, rate : Rates, pitch : Pitches, api_key : Keys]

\* Calls of synthesize() / stream() on one instance.
MaxCalls == 2

\* Python's  a or b  on an optional string.
PyOr(a, b) == IF a = None \/ a = "" THEN b ELSE a

\* TTS.__init__ (tts.py): the checks in the order the constructor makes them.
TTS_init(a, env) ==
    IF ~(VolumeMin <= a.volume /\ a.volume <= VolumeMax) THEN "ValueError"
    ELSE IF ~(RateMin <= a.rate /\ a.rate <= RateMax) THEN "ValueError"
    ELSE IF ~(PitchMin <= a.pitch /\ a.pitch <= PitchMax) THEN "ValueError"
    ELSE IF PyOr(a.api_key, env) = None THEN "ValueError"
    ELSE "ok"

\* Mutant of TTSV2_init: the pitch is not checked.
TTSV2_init_NoPitchCheck(a, env) ==
    IF ~(VolumeMin <= a.volume /\ a.volume <= VolumeMax) THEN "ValueError"
    ELSE IF ~(RateMin <= a.rate /\ a.rate <= RateMax) THEN "ValueError"
    ELSE IF PyOr(a.api_key, env) = None THEN "ValueError"
    ELSE "ok"

\* TTSV2.__init__ (tts_v2_queue.py).
TTSV2_init(a, env) ==
    IF ~(VolumeMin <= a.volume /\ a.volume <= VolumeMax) THEN "ValueError"
    ELSE IF ~(RateMin <= a.rate /\ a.rate <= RateMax) THEN "ValueError"
    ELSE IF ~(PitchMin <= a.pitch /\ a.pitch <= PitchMax) THEN "ValueError"
    ELSE IF PyOr(a.api_key, env) = None THEN "ValueError"
    ELSE "ok"

\* _opts as the constructor stores it.
OptsOf(a) == [volume |-> a.volume, rate |-> a.rate, pitch |-> a.pitch]

NoOpts == [volume |-> -1, rate |-> -1, pitch |-> -1]

CfgIdle ==
    /\ cfgClass = "none" /\ cfgArgs = [volume |-> 50, rate |-> 10, pitch |-> 10, api_key |-> None]
    /\ cfgEnv = None /\ cfgResult = "none" /\ cfgOpts = NoOpts /\ cfgCalls = 0

Construct(cls, a, env, outcome) ==
    /\ cfgResult = "none"
    /\ cfgClass' = cls /\ cfgArgs' = a /\ cfgEnv' = env
    /\ cfgResult' = outcome
    /\ cfgOpts' = IF outcome = "ok" THEN OptsOf(a) ELSE NoOpts
    /\ UNCHANGED <<auxVars, coordVars, tokVars, cfgCalls>>

Construct_TTS == \E a \in CfgArgs, env \in Keys : Construct("TTS", a, env, TTS_init(a, env))

Construct_TTSV2 == \E a \in CfgArgs, env \in Keys : Construct("TTSV2", a, env, TTSV2_init(a, env))

\* TTS.synthesize / TTSV2.synthesize: the stream gets self._opts as it is.
Cfg_Synthesize ==
    /\ cfgResult = "ok" /\ cfgCalls < MaxCalls
    /\ cfgCalls' = cfgCalls + 1
    /\ UNCHANGED <<auxVars, coordVars, tokVars, cfgClass, cfgArgs, cfgEnv, cfgResult, cfgOpts>>

\* TTSV2.stream: the stream gets self._opts as it is.
Cfg_Stream ==
    /\ cfgResult = "ok" /\ cfgClass = "TTSV2" /\ cfgCalls < MaxCalls
    /\ cfgCalls' = cfgCalls + 1
    /\ UNCHANGED <<auxVars, coordVars, tokVars, cfgClass, cfgArgs, cfgEnv, cfgResult, cfgOpts>>

CfgNext == Construct_TTS \/ Construct_TTSV2 \/ Cfg_Synthesize \/ Cfg_Stream

\* ------------------------------------------------ ChineseSentenceTokenizer
\* Characters are named by their code points.
SP == "U+0020"          \* space
DQ == "U+0022"          \* ASCII double quote
LDQ == "U+201C"         \* left curly double quote
RDQ == "U+201D"         \* right curly double quote
LCB == "U+300C"         \* left corner bracket
RCB == "U+300D"         \* right corner bracket
LWCB == "U+300E"        \* left white corner bracket
RWCB == "U+300F"        \* right white corner bracket
FS == "U+3002"          \* ideographic full stop
COLON == "U+FF1A"       \* fullwidth colon
NI == "U+4F60"
HAO == "U+597D"
ZAI == "U+518D"
JIAN == "U+89C1"
TA == "U+4ED6"
SHUO == "U+8BF4"
DE == "U+7684"

\* _config.sentence_ends; the two three-character entries never equal one
\* character of a text.
sentence_ends == {FS, "U+FF01", "U+FF1F", "U+2026", "U+FF1B",
                  "U+002E", "U+0021", "U+003F", "U+002E U+002E U+002E", "U+003B"}

\* _config.quote_pairs: the dict literal names the ASCII double quote twice,
\* so it has three keys.
quote_pairs == [k \in {DQ, LCB, LWCB} |->
                   IF k = DQ THEN DQ ELSE IF k = LCB THEN RCB ELSE RWCB]

QuoteClosers == {quote_pairs[k] : k \in DOMAIN quote_pairs}

\* min_sentence_len as __init__ defaults it.
DefaultMinSentenceLen == 10

\* Characters str.strip() removes.
Whitespace == {SP, "U+000A", "U+3000"}

RECURSIVE LStrip(_)
LStrip(t) == IF t # <<>> /\ Head(t) \in Whitespace THEN LStrip(Tail(t)) ELSE t

RECURSIVE RStrip(_)
RStrip(t) ==
    IF t # <<>> /\ t[Len(t)] \in Whitespace THEN RStrip(SubSeq(t, 1, Len(t) - 1)) ELSE t

Strip(t) == LStrip(RStrip(t))

\* The quote stack after the character ch.
QuoteStep(stack, ch) ==
    IF ch \in DOMAIN quote_pairs THEN Append(stack, ch)
    ELSE IF /\ ch \in QuoteClosers
            /\ stack # <<>>
            /\ quote_pairs[stack[Len(stack)]] = ch
         THEN SubSeq(stack, 1, Len(stack) - 1)
         ELSE stack

\* The loop of _split_sentences from the i-th character on.
RECURSIVE SplitFrom(_, _, _, _, _)
SplitFrom(text, i, sentences, current, stack) ==
    IF i > Len(text)
    THEN IF Strip(current) # <<>> THEN Append(sentences, Strip(current)) ELSE sentences
    ELSE LET ch == text[i]
             cur1 == Append(current, ch)
             stack1 == QuoteStep(stack, ch)
         IN  IF ch \in sentence_ends /\ stack1 = <<>>
             THEN SplitFrom(text, i + 1,
                            IF Strip(cur1) # <<>> THEN Append(sentences, Strip(cur1))
                                                  ELSE sentences,
                            <<>>, stack1)
             ELSE SplitFrom(text, i + 1, sentences, cur1, stack1)

split_sentences(text) == IF text = <<>> THEN <<>> ELSE SplitFrom(text, 1, <<>>, <<>>, <<>>)

\* The merging loop of tokenize without the `if buff:` block after it.
RECURSIVE MergeFromDropsRemainder(_, _, _, _, _)
MergeFromDropsRemainder(raw, i, sentences, buff, minLen) ==
    IF i > Len(raw)
    THEN sentences
    ELSE LET b == buff \o raw[i] \o <<SP>>
         IN  IF Len(b) - 1 >= minLen
             THEN MergeFromDropsRemainder(raw, i + 1, Append(sentences, RStrip(b)), <<>>, minLen)
             ELSE MergeFromDropsRemainder(raw, i + 1, sentences, b, minLen)

\* The merging loop of tokenize from the i-th raw sentence on.
RECURSIVE MergeFrom(_, _, _, _, _)
MergeFrom(raw, i, sentences, buff, minLen) ==
    IF i > Len(raw)
    THEN IF buff # <<>> THEN Append(sentences, RStrip(buff)) ELSE sentences
    ELSE LET b == buff \o raw[i] \o <<SP>>
         IN  IF Len(b) - 1 >= minLen
             THEN MergeFrom(raw, i + 1, Append(sentences, RStrip(b)), <<>>, minLen)
             ELSE MergeFrom(raw, i + 1, sentences, b, minLen)

\* tokenize returning the raw sentences as they are.
tokenizeWithoutMerging(text, minLen) == split_sentences(text)

tokenize(text, minLen) == MergeFrom(split_sentences(text), 1, <<>>, <<>>, minLen)

\* The quote stack over a whole text.
RECURSIVE QuoteStack(_, _)
QuoteStack(text, stack) ==
    IF text = <<>> THEN stack ELSE QuoteStack(Tail(text), QuoteStep(stack, Head(text)))

is_sentence_complete(text) ==
    IF text = <<>> THEN FALSE
    ELSE IF text[Len(text)] \in sentence_ends THEN QuoteStack(text, <<>>) = <<>>
    ELSE FALSE

\* Longest enumerated text, and the characters the enumerated texts use.
MaxTextLen == 4
TokAlphabet == {NI, FS, DQ, LCB, RCB, SP}

\* The texts of the spec's examples.
QuotedText == <<LDQ, NI, HAO, FS, ZAI, JIAN, RDQ, FS>>
PlainText == <<NI, HAO, FS, ZAI, JIAN, FS>>
ClosedQuoteText == <<TA, SHUO, COLON, LDQ, HAO, DE, FS, RDQ>>
OpenQuoteText == <<TA, SHUO, COLON, LDQ, HAO, DE, FS>>
ExampleTexts == {QuotedText, PlainText, ClosedQuoteText, OpenQuoteText}

Texts == ExampleTexts \cup UNION {[1..n -> TokAlphabet] : n \in 0..MaxTextLen}

MinLens == {1, 3, DefaultMinSentenceLen}

\* stream_context_len as __init__ defaults it.
DefaultStreamContextLen == 5

\* No stream was asked for.
StreamIdle ==
    /\ ssCtxLen = DefaultStreamContextLen /\ ssRest = <<>> /\ ssInBuf = <<>>
    /\ ssOutBuf = <<>> /\ ssUnits = <<>> /\ ssClosed = FALSE

\* No word tokenizer is in use.
WordIdle == wdText = <<>> /\ wdIgnore = TRUE /\ wdOp = "idle" /\ wdOut = <<>>

TokIdle ==
    /\ tkText = <<>> /\ tkMinLen = DefaultMinSentenceLen /\ tkOp = "idle"
    /\ tkOut = <<>> /\ tkBool = FALSE
    /\ StreamIdle /\ WordIdle

TokInit ==
    /\ tkText \in Texts /\ tkMinLen \in MinLens /\ tkOp = "none"
    /\ tkOut = <<>> /\ tkBool = FALSE
    /\ StreamIdle /\ WordIdle

Tok_Split ==
    /\ tkOp = "none"
    /\ tkOp' = "split"
    /\ tkOut' = split_sentences(tkText)
    /\ UNCHANGED <<auxVars, coordVars, cfgVars, tkText, tkMinLen, tkBool, streamVars, wordVars>>

Tok_Tokenize ==
    /\ tkOp = "none"
    /\ tkOp' = "tokenize"
    /\ tkOut' = tokenize(tkText, tkMinLen)
    /\ UNCHANGED <<auxVars, coordVars, cfgVars, tkText, tkMinLen, tkBool, streamVars, wordVars>>

Tok_IsComplete ==
    /\ tkOp = "none"
    /\ tkOp' = "complete"
    /\ tkBool' = is_sentence_complete(tkText)
    /\ UNCHANGED <<auxVars, coordVars, cfgVars, tkText, tkMinLen, tkOut, streamVars, wordVars>>

TokNext == Tok_Split \/ Tok_Tokenize \/ Tok_IsComplete

\* --------------------------------- the stream of ChineseSentenceTokenizer
\* stream() hands _split_sentences, min_sentence_len and stream_context_len to
\* livekit.agents.tokenize.BufferedSentenceStream; push_text, flush and
\* end_input below are that class's methods with these three arguments.

\* str.find: the index (from 0) of the first occurrence of tok in t, or -1.
Find(t, tok) ==
    LET hits == {i \in 0..(Len(t) - Len(tok)) : SubSeq(t, i + 1, i + Len(tok)) = tok}
    IN  IF hits = {} THEN -1 ELSE CHOOSE i \in hits : \A j \in hits : i <= j

\* " ".join(tokens)
RECURSIVE JoinWithSpace(_)
JoinWithSpace(tokens) ==
    IF tokens = <<>> THEN <<>>
    ELSE IF Len(tokens) = 1 THEN tokens[1]
    ELSE tokens[1] \o <<SP>> \o JoinWithSpace(Tail(tokens))

\* The `while True` loop of push_text; gives <<in_buf, out_buf, units>>.
RECURSIVE PushLoop(_, _, _, _)
PushLoop(inBuf, outBuf, units, minLen) ==
    LET tokens == split_sentences(inBuf)
    IN  IF Len(tokens) <= 1 THEN <<inBuf, outBuf, units>>
        ELSE LET tok == tokens[1]
                 out1 == (IF outBuf # <<>> THEN outBuf \o <<SP>> ELSE outBuf) \o tok
                 emit == Len(out1) >= minLen
                 at == IF Find(inBuf, tok) > 0 THEN Find(inBuf, tok) ELSE 0
                 in1 == LStrip(SubSeq(inBuf, at + Len(tok) + 1, Len(inBuf)))
             IN  PushLoop(in1, IF emit THEN <<>> ELSE out1,
                          IF emit THEN Append(units, out1) ELSE units, minLen)

\* push_text; gives <<in_buf, out_buf, units>>.
push_text(inBuf, outBuf, units, text, minLen, ctxLen) ==
    IF Len(inBuf \o text) < ctxLen THEN <<inBuf \o text, outBuf, units>>
    ELSE PushLoop(inBuf \o text, outBuf, units, minLen)

\* flush; gives the units (in_buf and out_buf are emptied).
flush(inBuf, outBuf, units) ==
    IF inBuf # <<>> \/ outBuf # <<>>
    THEN LET tokens == split_sentences(inBuf)
             out1 == IF tokens # <<>>
                     THEN (IF outBuf # <<>> THEN outBuf \o <<SP>> ELSE outBuf)
                              \o JoinWithSpace(tokens)
                     ELSE outBuf
         IN  IF out1 # <<>> THEN Append(units, out1) ELSE units
    ELSE units

CtxLens == {2, DefaultStreamContextLen}

\* A text of the default configuration: a sentence shorter than
\* min_sentence_len followed by two short ones.
ThreeSentences == <<NI, HAO, NI, HAO, NI, HAO, NI, FS, HAO, FS, NI, FS>>

StreamTexts == Texts \cup {ThreeSentences}

\* tokenizer.stream() was called and the caller holds the text to push.
StreamInit ==
    /\ tkText \in StreamTexts /\ tkMinLen \in MinLens /\ tkOp = "stream"
    /\ tkOut = <<>> /\ tkBool = FALSE
    /\ ssCtxLen \in CtxLens /\ ssRest = tkText /\ ssInBuf = <<>> /\ ssOutBuf = <<>>
    /\ ssUnits = <<>> /\ ssClosed = FALSE
    /\ WordIdle

\* The caller pushes the next fragment, of any length.
Stream_PushText ==
    /\ tkOp = "stream" /\ ~ssClosed /\ ssRest # <<>>
    /\ \E k \in 1..Len(ssRest) :
          LET r == push_text(ssInBuf, ssOutBuf, ssUnits, SubSeq(ssRest, 1, k),
                             tkMinLen, ssCtxLen)
          IN  /\ ssRest' = SubSeq(ssRest, k + 1, Len(ssRest))
              /\ ssInBuf' = r[1] /\ ssOutBuf' = r[2] /\ ssUnits' = r[3]
    /\ UNCHANGED <<auxVars, coordVars, cfgVars, tkText, tkMinLen, tkOp, tkOut, tkBool,
                   ssCtxLen, ssClosed, wordVars>>

\* end_input(): flush, then the stream is closed.
Stream_EndInput ==
    /\ tkOp = "stream" /\ ~ssClosed /\ ssRest = <<>>
    /\ ssUnits' = flush(ssInBuf, ssOutBuf, ssUnits)
    /\ ssInBuf' = <<>> /\ ssOutBuf' = <<>> /\ ssClosed' = TRUE
    /\ UNCHANGED <<auxVars, coordVars, cfgVars, tkText, tkMinLen, tkOp, tkOut, tkBool,
                   ssCtxLen, ssRest, wordVars>>

StreamNext == Stream_PushText \/ Stream_EndInput

\* ----------------------------------------------------- ChineseWordTokenizer
WO == "U+6211"
AI == "U+7231"
CjkFirst == "U+4E00"
CjkLast == "U+9FFF"
CjkExtA == "U+3400"     \* an ideograph outside U+4E00..U+9FFF
LatinP == "U+0050"
LatinY == "U+0079"
LatinT == "U+0074"
LatinH == "U+0068"
LatinO == "U+006F"
LatinN == "U+006E"
Digit3 == "U+0033"
COMMA == "U+002C"

\* _config.punctuations; the entry of two characters (the literal ''', ''')
\* never equals one character of a text.
punctuations ==
    {"U+3002", "U+FF0C", "U+3001", "U+FF1A", "U+FF1B", "U+FF01", "U+FF1F", "U+FF08",
     "U+FF09", "U+0022", "U+002C U+0020", "U+300C", "U+300D", "U+300E", "U+300F",
     "U+3010", "U+3011", "U+300A", "U+300B", "U+3008", "U+3009", "U+2026", "U+2014",
     "U+FF5E", "U+00B7", "U+3003", "U+002E", "U+002C", "U+0021", "U+003F", "U+003B",
     "U+003A", "U+0027", "U+0028", "U+0029", "U+005B", "U+005D", "U+007B", "U+007D",
     "U+003C", "U+003E", "U+002D", "U+005F", "U+003D", "U+002B", "U+002A", "U+002F",
     "U+005C", "U+007C", "U+0040", "U+0023", "U+0024", "U+0025", "U+005E", "U+0026"}

\* The code point of a character of the model's texts.
ord(c) ==
    CASE c = WO -> 25105 [] c = AI -> 29233 [] c = NI -> 20320
      [] c = CjkFirst -> 19968 [] c = CjkLast -> 40959 [] c = CjkExtA -> 13312
      [] c = FS -> 12290 [] c = LDQ -> 8220 [] c = COMMA -> 44 [] c = SP -> 32
      [] c = LatinP -> 80 [] c = LatinY -> 121 [] c = LatinT -> 116 [] c = LatinH -> 104
      [] c = LatinO -> 111 [] c = LatinN -> 110 [] c = Digit3 -> 51

is_chinese_char(c) == 19968 <= ord(c) /\ ord(c) <= 40959

is_punctuation(c) == c \in punctuations

\* str.isspace()
isspace(c) == c \in Whitespace

\* The loop of _split_words at the character of index i (counted from 0), as
\* it would be if an ideograph did not end the word in progress.
RECURSIVE WordsFromKeepsWord(_, _, _, _, _, _)
WordsFromKeepsWord(text, i, words, current, start, ignore) ==
    IF i >= Len(text)
    THEN IF current # <<>> THEN Append(words, <<current, start, Len(text)>>) ELSE words
    ELSE LET c == text[i + 1]
             flushed == IF current # <<>> THEN Append(words, <<current, start, i>>)
                                          ELSE words
         IN  IF ignore /\ is_punctuation(c)
             THEN WordsFromKeepsWord(text, i + 1, flushed, <<>>, start, ignore)
             ELSE IF ~ignore /\ is_punctuation(c)
             THEN WordsFromKeepsWord(text, i + 1, Append(flushed, << <<c>>, i, i + 1>>),
                                     <<>>, i + 1, ignore)
             ELSE IF is_chinese_char(c)
             THEN WordsFromKeepsWord(text, i + 1, Append(words, << <<c>>, i, i + 1>>),
                                     current, start, ignore)
             ELSE IF isspace(c)
             THEN WordsFromKeepsWord(text, i + 1, flushed, <<>>,
                                     IF current # <<>> THEN i + 1 ELSE start, ignore)
             ELSE WordsFromKeepsWord(text, i + 1, words, Append(current, c),
                                     IF current = <<>> THEN i ELSE start, ignore)

\* The loop of _split_words at the character of index i (counted from 0).
RECURSIVE WordsFrom(_, _, _, _, _, _)
WordsFrom(text, i, words, current, start, ignore) ==
    IF i >= Len(text)
    THEN IF current # <<>> THEN Append(words, <<current, start, Len(text)>>) ELSE words
    ELSE LET c == text[i + 1]
             flushed == IF current # <<>> THEN Append(words, <<current, start, i>>)
                                          ELSE words
         IN  IF ignore /\ is_punctuation(c)
             THEN WordsFrom(text, i + 1, flushed, <<>>, start, ignore)
             ELSE IF ~ignore /\ is_punctuation(c)
             THEN WordsFrom(text, i + 1, Append(flushed, << <<c>>, i, i + 1>>),
                            <<>>, i + 1, ignore)
             ELSE IF is_chinese_char(c)
             THEN WordsFrom(text, i + 1, Append(flushed, << <<c>>, i, i + 1>>),
                            <<>>, i + 1, ignore)
             ELSE IF isspace(c)
             THEN WordsFrom(text, i + 1, flushed, <<>>,
                            IF current # <<>> THEN i + 1 ELSE start, ignore)
             ELSE WordsFrom(text, i + 1, words, Append(current, c),
                            IF current = <<>> THEN i ELSE start, ignore)

\* _split_words with the end offset taken as the index of the word's last
\* character.
split_wordsInclusiveEnd(text, ignore) ==
    LET w == IF text = <<>> THEN <<>> ELSE WordsFrom(text, 0, <<>>, <<>>, 0, ignore)
    IN  [k \in 1..Len(w) |-> <<w[k][1], w[k][2], w[k][3] - 1>>]

split_words(text, ignore) ==
    IF text = <<>> THEN <<>> ELSE WordsFrom(text, 0, <<>>, <<>>, 0, ignore)

\* ChineseWordTokenizer.tokenize: the words without their offsets.
word_tokenize(text, ignore) ==
    LET w == split_words(text, ignore) IN [k \in 1..Len(w) |-> w[k][1]]

WordAlphabet == {WO, CjkLast, CjkExtA, LatinP, Digit3, COMMA, SP}

\* The text of the spec's example.
MixedText == <<WO, AI, LatinP, LatinY, LatinT, LatinH, LatinO, LatinN, Digit3>>

WordTexts == {MixedText} \cup UNION {[1..n -> WordAlphabet] : n \in 0..MaxTextLen}

WordInit ==
    /\ wdText \in WordTexts /\ wdIgnore \in BOOLEAN /\ wdOp = "none" /\ wdOut = <<>>

Word_Split ==
    /\ wdOp = "none"
    /\ wdOp' = "split"
    /\ wdOut' = split_words(wdText, wdIgnore)
    /\ UNCHANGED <<auxVars, coordVars, cfgVars, tkText, tkMinLen, tkOp, tkOut, tkBool, streamVars,
                   wdText, wdIgnore>>

Word_Tokenize ==
    /\ wdOp = "none"
    /\ wdOp' = "tokenize"
    /\ wdOut' = word_tokenize(wdText, wdIgnore)
    /\ UNCHANGED <<auxVars, coordVars, cfgVars, tkText, tkMinLen, tkOp, tkOut, tkBool, streamVars,
                   wdText, wdIgnore>>

WordNext == Word_Split \/ Word_Tokenize

\* ------------------------------------------------ ChunkedStream._main_task
\* on_event callbacks of one SpeechSynthesizer.call (tts.py).
MaxEvents == 4

\* No non-streaming synthesis was asked for.
ChunkIdle ==
    /\ ckImpl = "none" /\ pcChunk = "idle" /\ ckAudio = 0 /\ ckEvents = 0
    /\ ckBuf = <<>> /\ ckFrames = <<>>

\* A ChunkedStream of either module, its _main_task not started yet.
ChunkInit ==
    /\ ckImpl \in {"tts", "tts_v2_queue"} /\ pcChunk = "init" /\ ckAudio = 0
    /\ ckEvents = 0 /\ ckBuf = <<>> /\ ckFrames = <<>>

\* `for frame in audio_bstream.write(data): _event_ch.send_nowait(...)` for
\* n more bytes of audio.
WriteAndSend(n) ==
    LET data == [i \in 1..n |-> ckAudio + i]
    IN  /\ ckFrames' = ckFrames \o CutFrames(ckBuf \o data)
        /\ ckBuf' = Retained(ckBuf \o data)
        /\ ckAudio' = ckAudio + n

\* tts.py: _main_task builds the callback and enters SpeechSynthesizer.call.
Chunk_Call ==
    /\ ckImpl = "tts" /\ pcChunk = "init"
    /\ pcChunk' = "calling"
    /\ UNCHANGED <<coordVars, cfgVars, tokVars, sttVars, ckImpl, ckAudio, ckEvents,
                   ckBuf, ckFrames>>

\* tts.py: TTSCallback.on_event with n bytes of audio (none when n = 0) and
\* with or without a timestamp; with one, `self._opts` is read, which the
\* callback does not have, and the AttributeError ends the call.
Chunk_OnEvent ==
    /\ ckImpl = "tts" /\ pcChunk = "calling" /\ ckEvents < MaxEvents
    /\ \E n \in 0..MaxChunk, timestamp \in BOOLEAN :
          /\ WriteAndSend(n)
          /\ pcChunk' = IF timestamp THEN "failed" ELSE "calling"
    /\ ckEvents' = ckEvents + 1
    /\ UNCHANGED <<coordVars, cfgVars, tokVars, sttVars, ckImpl>>

\* tts.py: TTSCallback.on_error raises.
Chunk_OnError ==
    /\ ckImpl = "tts" /\ pcChunk = "calling"
    /\ pcChunk' = "failed"
    /\ UNCHANGED <<coordVars, cfgVars, tokVars, sttVars, ckImpl, ckAudio, ckEvents,
                   ckBuf, ckFrames>>

\* tts.py: the call returns and _main_task sends what audio_bstream.flush()
\* gives.
Chunk_Return ==
    /\ ckImpl = "tts" /\ pcChunk = "calling"
    /\ ckFrames' = ckFrames \o FlushFrames(ckBuf)
    /\ ckBuf' = <<>>
    /\ pcChunk' = "done"
    /\ UNCHANGED <<coordVars, cfgVars, tokVars, sttVars, ckImpl, ckAudio, ckEvents>>

\* tts_v2_queue.py: _main_task from its first line to its last; the backend
\* returns n bytes of audio for the text.
Chunk_MainV2 ==
    /\ ckImpl = "tts_v2_queue" /\ pcChunk = "init"
    /\ \E n \in 0..(MaxChunk * MaxEvents) : WriteAndSend(n)
    /\ pcChunk' = "done"
    /\ UNCHANGED <<coordVars, cfgVars, tokVars, sttVars, ckImpl, ckEvents>>

\* tts_v2_queue.py: synthesizer.call raises.
Chunk_MainV2Raises ==
    /\ ckImpl = "tts_v2_queue" /\ pcChunk = "init"
    /\ pcChunk' = "failed"
    /\ UNCHANGED <<coordVars, cfgVars, tokVars, sttVars, ckImpl, ckAudio, ckEvents,
                   ckBuf, ckFrames>>

ChunkNext ==
    \/ Chunk_Call \/ Chunk_OnEvent \/ Chunk_OnError \/ Chunk_Return
    \/ Chunk_MainV2 \/ Chunk_MainV2Raises

\* ------------------------------------------------------ SpeechStream (stt.py)
\* Callbacks of the backend in one recognition.
MaxCallbacks == 4

\* No recognition stream is in use.
SttIdle ==
    /\ pcStt = "idle" /\ sttItems = 0 /\ sttSpeaking = FALSE /\ sttEvClosed = FALSE
    /\ sttEvents = <<>> /\ sttCalls = <<>>

\* SpeechStream.__init__.
SttInit ==
    /\ pcStt = "init" /\ sttItems = 0 /\ sttSpeaking = FALSE /\ sttEvClosed = FALSE
    /\ sttEvents = <<>> /\ sttCalls = <<>>

AuxIdle == ChunkIdle /\ SttIdle

\* The texts of a result: none, or some.
ResultTexts == {"", "text"}

\* _main_task up to the try block: the Recognition is built and started.
Stt_Start ==
    /\ pcStt = "init"
    /\ pcStt' = "running"
    /\ UNCHANGED <<coordVars, cfgVars, tokVars, chunkVars, sttItems, sttSpeaking,
                   sttEvClosed, sttEvents, sttCalls>>

\* One item of _input_ch: a frame is handed to send_audio_frame, a flush
\* marker is skipped.
Stt_Item ==
    /\ pcStt = "running" /\ sttItems < MaxPush
    /\ sttItems' = sttItems + 1
    /\ UNCHANGED <<coordVars, cfgVars, tokVars, chunkVars, pcStt, sttSpeaking,
                   sttEvClosed, sttEvents, sttCalls>>

\* The loop ends (input closed, cancellation, or send_audio_frame raised):
\* the finally block stops the recognition, and the stream closes _event_ch
\* when _main_task is over.
Stt_End ==
    /\ pcStt = "running"
    /\ pcStt' = "ended"
    /\ sttEvClosed' = TRUE
    /\ UNCHANGED <<coordVars, cfgVars, tokVars, chunkVars, sttItems, sttSpeaking,
                   sttEvents, sttCalls>>

\* What a callback leaves behind.
Called(cb, text, final) ==
    sttCalls' = Append(sttCalls, [cb |-> cb, text |-> text, final |-> final,
                                  speaking |-> sttSpeaking', events |-> Len(sttEvents')])

\* _event_ch.send_nowait for the events evs in turn: on a closed channel the
\* first call raises and nothing is sent.
SendEvents(evs) == sttEvents' = IF sttEvClosed THEN sttEvents ELSE sttEvents \o evs

\* on_event for a result with a text, as it would be if it announced the
\* start of speech with every result.
OnEventEmitsStartAlways(speaking, final) ==
    <<"START_OF_SPEECH">>
        \o <<IF final THEN "FINAL_TRANSCRIPT" ELSE "INTERIM_TRANSCRIPT">>

\* The events on_event sends for a result with a text.
OnEventEmits(speaking, final) ==
    (IF ~speaking THEN <<"START_OF_SPEECH">> ELSE <<>>)
        \o <<IF final THEN "FINAL_TRANSCRIPT" ELSE "INTERIM_TRANSCRIPT">>

\* StreamCallback.on_event(result).
Stt_OnEvent ==
    /\ pcStt \in {"running", "ended"} /\ Len(sttCalls) < MaxCallbacks
    /\ \E text \in ResultTexts, final \in BOOLEAN :
          /\ IF text = ""
             THEN UNCHANGED <<sttSpeaking, sttEvents>>
             ELSE /\ sttSpeaking' = TRUE
                  /\ SendEvents(OnEventEmits(sttSpeaking, final))
          /\ Called("on_event", text, final)
    /\ UNCHANGED <<coordVars, cfgVars, tokVars, chunkVars, pcStt, sttItems, sttEvClosed>>

\* StreamCallback.on_complete().
Stt_OnComplete ==
    /\ pcStt \in {"running", "ended"} /\ Len(sttCalls) < MaxCallbacks
    /\ IF sttSpeaking
       THEN /\ sttSpeaking' = FALSE
            /\ SendEvents(<<"END_OF_SPEECH">>)
       ELSE UNCHANGED <<sttSpeaking, sttEvents>>
    /\ Called("on_complete", "", FALSE)
    /\ UNCHANGED <<coordVars, cfgVars, tokVars, chunkVars, pcStt, sttItems, sttEvClosed>>

\* StreamCallback.on_error(result): the error is logged.
Stt_OnError ==
    /\ pcStt \in {"running", "ended"} /\ Len(sttCalls) < MaxCallbacks
    /\ UNCHANGED <<coordVars, cfgVars, tokVars, chunkVars, pcStt, sttItems, sttSpeaking,
                   sttEvClosed, sttEvents>>
    /\ Called("on_error", "", FALSE)

SttNext ==
    \/ Stt_Start \/ Stt_Item \/ Stt_End
    \/ Stt_OnEvent \/ Stt_OnComplete \/ Stt_OnError

\* ---------------------------------------------------------- specification
\* The steps of the event loop.
LoopStep ==
    \/ Main_Start \/ Main_CancelledBeforeStart \/ Main_Resume
    \/ In_Run \/ In_Cancelled
    \/ Sent_Start \/ Sent_Send \/ Sent_Complete \/ Sent_ExecDone \/ Sent_Cancelled
    \/ Out_Forward \/ Out_ForwardRaises \/ Out_SeeEmpty \/ Out_Register \/ Out_Wake
    \/ Out_Cancelled

\* The steps of the backend that a healthy session takes.
BackendStep == OnData \/ OnComplete \/ ExecReturn

\* Failures of the backend.
BackendFault == Sent_SendRaises \/ OnError \/ ExecRaise \/ OnLateData

\* The caller of the request.
Producer == PushText \/ PushFlush \/ EndInput

CoordNext == LoopStep \/ BackendStep \/ BackendFault \/ Producer \/ Cancel

Init == CoordInit /\ CfgIdle /\ TokIdle /\ AuxIdle

Next == CoordNext

Spec == Init /\ [][Next]_vars

\* The same request in a run that records the calls of the caller and of the
\* intake stage.
RecordedInit == Constructed /\ recording = TRUE /\ CfgIdle /\ TokIdle /\ AuxIdle

RecordedSpec == RecordedInit /\ [][Next]_vars

\* Construction of a TTS or TTSV2 and the calls on the instance.
CfgInit == CoordInit /\ CfgIdle /\ TokIdle /\ AuxIdle

CfgSpec == CfgInit /\ [][CfgNext]_vars

\* The sentence tokenizer applied to one text.
TokSpecInit == CoordInit /\ CfgIdle /\ TokInit /\ AuxIdle

TokSpec == TokSpecInit /\ [][TokNext]_vars

\* The stream of the sentence tokenizer fed one text in fragments.
StreamSpecInit == CoordInit /\ CfgIdle /\ StreamInit /\ AuxIdle

StreamSpec == StreamSpecInit /\ [][StreamNext]_vars

\* The word tokenizer applied to one text.
WordSpecInit ==
    /\ CoordInit /\ CfgIdle
    /\ tkText = <<>> /\ tkMinLen = DefaultMinSentenceLen /\ tkOp = "idle"
    /\ tkOut = <<>> /\ tkBool = FALSE /\ StreamIdle
    /\ WordInit
    /\ AuxIdle

WordSpec == WordSpecInit /\ [][WordNext]_vars

\* One non-streaming synthesis, by the ChunkedStream of either module.
ChunkSpecInit == CoordInit /\ CfgIdle /\ TokIdle /\ ChunkInit /\ SttIdle

ChunkSpec == ChunkSpecInit /\ [][ChunkNext]_vars

\* One recognition stream and the callbacks of its backend.
SttSpecInit == CoordInit /\ CfgIdle /\ TokIdle /\ ChunkIdle /\ SttInit

SttSpec == SttSpecInit /\ [][SttNext]_vars

\* The event loop runs every task that is ready, and the backend thread
\* goes on; the caller is free to stop pushing and free not to cancel.
FairSpec == Spec /\ WF_vars(LoopStep) /\ WF_vars(BackendStep)

\* ------------------------------------------------------------------ claims
AllStagesFinished == \A t \in Stages : PcOf(t) \in Finished

MainTerminated == pcMain \in {"done", "failed", "cancelled"}

\* A stage raised, or the backend reported or raised a failure.
BackendFailed == backendErr \/ execState = "raised" \/ pcSent = "failed"

Faulted == firstErr # "none" \/ BackendFailed

\* The first n frames (or units), in the order they were produced.
FirstN(n) == [i \in 1..n |-> i]

\* C1: once the producer has signalled end-of-input and the backend has
\* acknowledged completion (streaming_complete returned after on_complete),
\* and unless a stage raises or somebody cancels, the audio queue is
\* eventually closed and drained, the three stages complete and _main_task
\* returns (DONE).
C1_NormalCompletion ==
    (inputClosed /\ execState = "returned" /\ onCompleteDone)
        ~> \/ cancelRequested
           \/ Faulted
           \/ /\ qClosed /\ queue = <<>>
              /\ pcIn = "done" /\ pcSent = "done" /\ pcOut = "done"
              /\ pcMain = "done"

\* C2: once a stage has raised while the request is running, eventually the
\* other two stages are stopped as well and the request is FAILED, whatever
\* the other stages were doing (intake suspended on input, output suspended
\* on the empty queue), unless the caller cancels the request first.
C2_ErrorPropagation ==
    (firstErr # "none" /\ pcMain = "await")
        ~> \/ pcMain = "failed" /\ AllStagesFinished
           \/ cancelRequested

\* The cancellation arrived while the dispatch stage was awaiting
\* streaming_complete in the executor.
CancelledWhileCompleting == cancelRequested /\ cancelAt = "completing"

\* C3: a cancellation requested while the dispatch stage awaits backend
\* completion makes _main_task terminate, and the chain of task steps that
\* carries the CancelledError (the awaited stage, then _main_task) has at
\* most two steps.
C3_CancelTerminates ==
    /\ CancelledWhileCompleting ~> MainTerminated
    /\ [](CancelledWhileCompleting => hops <= 2)

C3_Witness ==
    /\ CancelledWhileCompleting /\ MainTerminated
    /\ pcSent = "cancelled" /\ hops = 2

\* C4: after an external cancellation of a request whose stages exist, all
\* three stages eventually stop and the audio queue is closed (in a run
\* where nothing fails).
C4_CancelStopsAll ==
    (cancelRequested /\ pcIn # "nc" /\ ~Faulted)
        ~> \/ AllStagesFinished /\ qClosed
           \/ Faulted

\* C5: the units handed to streaming_call are the units the segmentation
\* stream emitted, in emission order and once each, none skipped;
\* streaming_complete is called at most once, and only when every emitted
\* unit has been sent and the stream has ended; no frame is forwarded
\* before the first send.
C5_DispatchOrder ==
    /\ sends = FirstN(Len(sends))
    /\ Len(sends) <= nUnits
    /\ tokQ = [i \in 1..Len(tokQ) |-> Len(sends) + i]
    /\ Len(sends) + Len(tokQ) = nUnits
    /\ completeCalls <= 1
    /\ completeCalls = 1 => (tokClosed /\ tokQ = <<>> /\ Len(sends) = nUnits)
    /\ sends = <<>> => (delivered = <<>> /\ nEnq = 0)
    /\ deliveredAtFirstSend = 0

C5_Witness ==
    /\ completeCalls = 1 /\ Len(sends) = 2 /\ nUnits = 2
    /\ delivered # <<>>

\* C6: while the request runs uncancelled, the frames forwarded downstream
\* followed by the frames waiting on the audio queue are exactly the frames
\* enqueued, in enqueue order (none lost, duplicated or reordered), and the
\* output stage is never left suspended, unwoken, on a queue that holds a
\* frame.
C6_Bridge ==
    (pcMain = "await" /\ ~cancelRequested)
        => /\ delivered \o queue = FirstN(nEnq)
           /\ ~(pcOut = "waiting" /\ waiter = "pending" /\ queue # <<>>)

\* C7: a backend failure (on_error, or streaming_call or streaming_complete
\* raising) of a request whose input has ended makes the request end
\* FAILED (unless it is cancelled first).
C7_BackendFailureTerminal ==
    (BackendFailed /\ inputClosed /\ pcMain = "await")
        ~> (pcMain = "failed" \/ cancelRequested)

\* The constructor's arguments are in the ranges the configuration states:
\* volume 0..100, rate 0.5..2.0, pitch 0.5..2.0 (in tenths).
InRange(a) ==
    /\ 0 <= a.volume /\ a.volume <= 100
    /\ 5 <= a.rate /\ a.rate <= 20
    /\ 5 <= a.pitch /\ a.pitch <= 20

\* No credential: no api_key argument and no environment variable. A
\* credential: a non-empty api_key or a non-empty environment variable.
NoCredential == cfgArgs.api_key = None /\ cfgEnv = None

HasCredential == cfgArgs.api_key \notin {None, ""} \/ cfgEnv \notin {None, ""}

\* C8: constructing TTS or TTSV2 with volume, rate or pitch out of range, or
\* with no credential, fails in the constructor (ValueError, no instance, so
\* no synthesize/stream call); every in-range configuration with a
\* credential constructs, and an instance in use always holds in-range
\* options (no check is left to first use).
C8_ValidatedAtConstruction ==
    cfgResult # "none" =>
        /\ (~InRange(cfgArgs) \/ NoCredential)
              => (cfgResult = "ValueError" /\ cfgOpts = NoOpts /\ cfgCalls = 0)
        /\ (InRange(cfgArgs) /\ HasCredential)
              => (cfgResult = "ok" /\ cfgOpts = OptsOf(cfgArgs))
        /\ cfgCalls > 0 => (cfgResult = "ok" /\ InRange(cfgOpts))

C8_Witness ==
    /\ cfgClass = "TTSV2" /\ cfgResult = "ValueError"
    /\ cfgArgs.volume = 50 /\ cfgArgs.rate = 10 /\ cfgArgs.pitch = 21
    /\ cfgArgs.api_key = "sk-key"

\* C9: with the default configuration, tokenize of the text with a
\* terminator inside curly quotes returns exactly one sentence, the whole
\* text, and tokenize of the unquoted text returns two sentences.
C9_QuoteNesting ==
    (tkOp = "tokenize" /\ tkMinLen = DefaultMinSentenceLen) =>
        /\ tkText = QuotedText => tkOut = <<QuotedText>>
        /\ tkText = PlainText => Len(tkOut) = 2

\* C10: _is_sentence_complete is true for the text whose quote is closed
\* after the terminator and false for the text whose quote is left open.
C10_IsSentenceComplete ==
    tkOp = "complete" =>
        /\ tkText = ClosedQuoteText => tkBool = TRUE
        /\ tkText = OpenQuoteText => tkBool = FALSE

RECURSIVE Concat(_)
Concat(ss) == IF ss = <<>> THEN <<>> ELSE Head(ss) \o Concat(Tail(ss))

NoWhitespace(t) == SelectSeq(t, LAMBDA c : c \notin Whitespace)

\* s becomes t when some of the spaces of s are removed.
RECURSIVE SpacesRemovedGives(_, _)
SpacesRemovedGives(s, t) ==
    IF s = <<>> THEN t = <<>>
    ELSE \/ t # <<>> /\ Head(s) = Head(t) /\ SpacesRemovedGives(Tail(s), Tail(t))
         \/ Head(s) = SP /\ SpacesRemovedGives(Tail(s), t)

\* C11 as claimed: the sentences tokenize returns, concatenated, give back the
\* text once separator spaces are removed (whichever spaces are taken to be
\* the separators).
C11_NoCharactersDropped ==
    tkOp = "tokenize" => SpacesRemovedGives(Concat(tkOut), tkText)

\* C11 amended: the sentences tokenize returns, concatenated, hold the
\* characters of the text that are not whitespace, each once and in the order
\* of the text; so a text without whitespace is reconstructed exactly by
\* removing the separators.
C11_NoCharactersDroppedButWhitespace ==
    tkOp = "tokenize" =>
        /\ NoWhitespace(Concat(tkOut)) = NoWhitespace(tkText)
        /\ (NoWhitespace(tkText) = tkText => SpacesRemovedGives(Concat(tkOut), tkText))

\* Two raw sentences merged with a separator, and a text whose whitespace at a
\* sentence boundary is trimmed.
C11_Witness ==
    /\ tkOp = "tokenize"
    /\ \/ tkText = <<NI, FS, NI, FS>> /\ tkOut = << <<NI, FS, SP, NI, FS>> >>
       \/ tkText = <<NI, FS, SP, NI>> /\ tkMinLen = 1 /\ tkOut = << <<NI, FS>>, <<NI>> >>

\* The class of a character, in the order of priority of the word tokenizer.
CharClass(c) ==
    IF c \in punctuations THEN "punctuation"
    ELSE IF 19968 <= ord(c) /\ ord(c) <= 40959 THEN "cjk"
    ELSE IF c \in Whitespace THEN "whitespace"
    ELSE "other"

Flush(words, pending) == IF pending = <<>> THEN words ELSE Append(words, pending)

\* The reference splitter: one character at a time, by its class.
RECURSIVE RefWords(_, _, _, _)
RefWords(text, words, pending, ignore) ==
    IF text = <<>> THEN Flush(words, pending)
    ELSE LET c == Head(text)
             k == CharClass(c)
         IN  CASE k = "punctuation" ->
                    RefWords(Tail(text),
                             IF ignore THEN Flush(words, pending)
                                       ELSE Append(Flush(words, pending), <<c>>),
                             <<>>, ignore)
               [] k = "cjk" ->
                    RefWords(Tail(text), Append(Flush(words, pending), <<c>>), <<>>, ignore)
               [] k = "whitespace" ->
                    RefWords(Tail(text), Flush(words, pending), <<>>, ignore)
               [] k = "other" ->
                    RefWords(Tail(text), words, Append(pending, c), ignore)

\* C12: ChineseWordTokenizer.tokenize gives what the reference splitter gives
\* (punctuation, then ideograph, then whitespace, then anything else; the
\* pending word flushed at the end), and the example text yields its three
\* words.
C12_WordClassification ==
    wdOp = "tokenize" =>
        /\ wdOut = RefWords(wdText, <<>>, <<>>, wdIgnore)
        /\ (wdText = MixedText =>
               wdOut = << <<WO>>, <<AI>>,
                          <<LatinP, LatinY, LatinT, LatinH, LatinO, LatinN, Digit3>> >>)

\* A Latin word ended by an ideograph, and punctuation kept as a unit.
C12_Witness ==
    /\ wdOp = "tokenize" /\ ~wdIgnore
    /\ wdText = <<LatinP, WO, COMMA, Digit3>>
    /\ wdOut = << <<LatinP>>, <<WO>>, <<COMMA>>, <<Digit3>> >>

\* C13: once every fragment of the text is pushed and end_input is called,
\* the units of the stream are the sentences tokenize gives for the text.
C13_StreamEqualsOneShot ==
    (tkOp = "stream" /\ ssClosed) => ssUnits = tokenize(tkText, tkMinLen)

\* C14: while the audio queue takes frames, the frames enqueued so far,
\* concatenated, followed by what the chunker retains, are the bytes passed to
\* on_data, each once and in order; every frame but the one on_complete
\* flushed has the frame size, the flushed one is a shorter remainder, and
\* after on_complete nothing is retained.
C14_ByteConservation ==
    ~qClosed =>
        /\ Len(frameData) = nEnq
        /\ Concat(frameData) \o bufBytes = [i \in 1..nBytes |-> i]
        /\ Len(bufBytes) < FrameBytes
        /\ \A k \in 1..Len(frameData) :
              IF k = flushFrame THEN Len(frameData[k]) \in 1..(FrameBytes - 1)
                                ELSE Len(frameData[k]) = FrameBytes
        /\ (flushFrame # 0 => onCompleteDone)
        /\ (onCompleteDone /\ lateData = 0 =>
               /\ bufBytes = <<>>
               /\ flushFrame \in {0, Len(frameData)}
               /\ Concat(frameData) = [i \in 1..nBytes |-> i])

\* Two deliveries, a full frame cut from them and the remainder flushed by
\* on_complete as the last frame.
C14_Witness ==
    /\ ~qClosed /\ onCompleteDone /\ nData = 2
    /\ Len(frameData) >= 2 /\ flushFrame = Len(frameData)

ErrorOf(t) == IF t = "sentence" THEN "BackendError" ELSE "ChanClosed"

\* C16: when the try block of _main_task was ended by a failed stage, the
\* request's terminal error is the error of the stage that failed first,
\* whatever the cleanup step raised.
C16_FirstErrorWins ==
    (pcMain \in {"done", "failed", "cancelled"} /\ mainCause = "Exception")
        => (firstErr # "none" /\ pcMain = "failed" /\ mainErr = ErrorOf(firstErr))

\* C17: a request stopped by the caller's cancellation, no stage and no
\* backend call having failed, ends cancelled, with no error other than the
\* cancellation itself.
C17_CancellationNotFailure ==
    (MainTerminated /\ cancelRequested /\ mainCause = "CancelledError" /\ ~Faulted)
        => (pcMain = "cancelled" /\ mainErr = "CancelledError")

\* C18: once on_complete has run, audio that on_data still receives puts no
\* frame on the audio queue, and the consumer gets no frame made of it.
C18_LateDataNoOp ==
    onCompleteDone =>
        /\ nEnq = enqAtComplete
        /\ \A i \in 1..Len(delivered) : delivered[i] <= enqAtComplete

EndInputCall == <<"end_input">>

\* The calls made on the segmentation stream before end_input.
CallsBeforeEnd ==
    IF streamCalls # <<>> /\ streamCalls[Len(streamCalls)] = EndInputCall
    THEN SubSeq(streamCalls, 1, Len(streamCalls) - 1) ELSE streamCalls

\* C19: the calls of text_input_task on the segmentation stream are, item by
\* item and in the caller's order, push_text for a fragment and one flush for
\* a flush signal; what is not processed yet waits on the channel; end_input
\* is called once, as the last call, after everything pushed was processed,
\* and the stage is done exactly then (a flush leaves it running).
C19_IntakeProtocol ==
    /\ \A i \in 1..Len(CallsBeforeEnd) :
          /\ i <= Len(pushLog)
          /\ CallsBeforeEnd[i] = (IF pushLog[i] = "flush" THEN <<"flush">>
                                                         ELSE <<"push_text", pushLog[i]>>)
    /\ pushLog = [i \in 1..Len(CallsBeforeEnd) |-> pushLog[i]] \o inputCh
    /\ Cardinality({i \in 1..Len(streamCalls) : streamCalls[i] = EndInputCall}) <= 1
    /\ (CallsBeforeEnd # streamCalls <=> pcIn = "done")
    /\ (pcIn = "done" => inputClosed /\ inputCh = <<>> /\ Len(CallsBeforeEnd) = Len(pushLog))
    /\ (tokClosed <=> pcIn = "done")

\* A flush and then a fragment were processed in that order, and end_input
\* closed the stream after them.
C19_Witness ==
    /\ pushLog = <<"flush", "full">> /\ pcIn = "done"
    /\ streamCalls = << <<"flush">>, <<"push_text", "full">>, <<"end_input">> >>

\* The backend acknowledged completion: streaming_complete returned after
\* on_complete put the chunker's remainder on the audio queue.
Acknowledged ==
    /\ onCompleteDone /\ execState = "returned"
    /\ (lateData = 0 => bufBytes = <<>> /\ Len(frameData) = enqAtComplete)
    /\ (flushFrame # 0 => flushFrame <= Len(frameData))

SessionCreated == requestId # "unset"

\* The calls on the session that end it. _main_task and its stages call
\* streaming_call and streaming_complete, nothing else.
ReleaseCalls == completeCalls

\* C21: a request that ended by cancellation or by a stage failure, after the
\* backend session was created, has issued a stop/close/complete call on that
\* session before it terminated.
C21_SessionRelease ==
    (MainTerminated /\ SessionCreated /\ (cancelRequested \/ firstErr # "none"))
        => ReleaseCalls > 0

\* The number of leading raw sentences that, joined by single spaces, first
\* reach minLen; all of them when none does.
FirstGroup(raw, minLen) ==
    LET long == {k \in 1..Len(raw) : Len(JoinWithSpace(SubSeq(raw, 1, k))) >= minLen}
    IN  IF long = {} THEN Len(raw) ELSE CHOOSE k \in long : \A j \in long : k <= j

\* The raw sentences grouped from the left, each group the shortest run that
\* reaches minLen, its members joined by one space.
RECURSIVE Grouped(_, _)
Grouped(raw, minLen) ==
    IF raw = <<>> THEN <<>>
    ELSE LET k == FirstGroup(raw, minLen)
         IN  <<JoinWithSpace(SubSeq(raw, 1, k))>>
                 \o Grouped(SubSeq(raw, k + 1, Len(raw)), minLen)

\* C22: tokenize joins consecutive raw sentences by exactly one space until
\* the accumulated length reaches min_sentence_len: every returned sentence
\* but possibly the last has at least that length, a shorter remainder at the
\* end of the input is still returned as the last sentence, and the result is
\* empty only when the raw splitter returns no sentence.
C22_ShortSentenceMerging ==
    tkOp = "tokenize" =>
        LET raw == split_sentences(tkText)
        IN  /\ tkOut = Grouped(raw, tkMinLen)
            /\ \A i \in 1..(Len(tkOut) - 1) : Len(tkOut[i]) >= tkMinLen
            /\ JoinWithSpace(tkOut) = JoinWithSpace(raw)
            /\ (tkOut = <<>> <=> raw = <<>>)

\* Three raw sentences: the first two merged reach the minimum, the third
\* stays short and is returned after them.
C22_Witness ==
    /\ tkOp = "tokenize" /\ Len(split_sentences(tkText)) = 3
    /\ Len(tkOut) = 2 /\ Len(tkOut[1]) >= tkMinLen /\ Len(tkOut[2]) < tkMinLen
    /\ SP \in {tkOut[1][i] : i \in 1..Len(tkOut[1])}
    /\ SP \notin {tkText[i] : i \in 1..Len(tkText)}

\* The characters that are neither an opening nor a closing delimiter.
IsDelimiter(ch) == ch \in DOMAIN quote_pairs \/ ch \in QuoteClosers

\* A quotation opened and closed: an opener of a configured pair, characters
\* that are no delimiters, the closer of that pair.
IsClosedQuotation(t) ==
    /\ Len(t) >= 2
    /\ t[1] \in DOMAIN quote_pairs
    /\ t[Len(t)] = quote_pairs[t[1]]
    /\ \A i \in 2..(Len(t) - 1) : ~IsDelimiter(t[i])

\* C23: for every configured delimiter pair, the ASCII double quote that
\* opens and closes its own pair included, the stack is empty again after a
\* quotation that was opened and closed: _is_sentence_complete is true for
\* the quotation followed by a terminator, and in _split_sentences the
\* terminator that follows the quotation ends the sentence, the text after it
\* being the next sentence.
C23_DelimiterStackDiscipline ==
    /\ (tkOp = "complete" /\ Len(tkText) >= 3
            /\ IsClosedQuotation(SubSeq(tkText, 1, Len(tkText) - 1))
            /\ tkText[Len(tkText)] = FS)
        => tkBool = TRUE
    /\ (tkOp = "split" /\ Len(tkText) >= 4
            /\ IsClosedQuotation(SubSeq(tkText, 1, Len(tkText) - 2))
            /\ tkText[Len(tkText) - 1] = FS /\ tkText[Len(tkText)] = NI)
        => tkOut = <<SubSeq(tkText, 1, Len(tkText) - 1), <<NI>> >>

\* C24: for every text and both settings of ignore_punctuation, each tuple
\* (word, start, end) that _split_words returns has 0 <= start < end <=
\* len(text) and text[start:end] = word, and consecutive tuples do not
\* overlap, so the start offsets increase strictly in output order.
C24_WordOffsets ==
    wdOp = "split" =>
        /\ \A k \in 1..Len(wdOut) :
              LET word == wdOut[k][1]
                  start == wdOut[k][2]
                  end == wdOut[k][3]
              IN  /\ 0 <= start /\ start < end /\ end <= Len(wdText)
                  /\ SubSeq(wdText, start + 1, end) = word
        /\ \A k \in 1..(Len(wdOut) - 1) :
              /\ wdOut[k][3] <= wdOut[k + 1][2]
              /\ wdOut[k][2] < wdOut[k + 1][2]

\* Punctuation is ignored: a word of two characters is followed, after a
\* skipped punctuation character, by another word.
C24_Witness ==
    /\ wdOp = "split" /\ wdIgnore /\ Len(wdOut) >= 2
    /\ \E k \in 1..(Len(wdOut) - 1) :
          /\ Len(wdOut[k][1]) = 2
          /\ wdOut[k][3] < wdOut[k + 1][2]
          /\ wdText[wdOut[k][3] + 1] = COMMA

\* C25: when _main_task of a ChunkedStream ends without error, in tts.py and
\* in tts_v2_queue.py alike, the bytes of the frames sent to the event
\* channel are all the audio bytes the backend returned for the text, in
\* order, a trailing part shorter than one frame included.
C25_NoAudioLoss ==
    pcChunk = "done" => Concat(ckFrames) = FirstN(ckAudio)

\* The START_OF_SPEECH and END_OF_SPEECH events among the first n events.
Framing(n) ==
    SelectSeq(SubSeq(sttEvents, 1, n),
              LAMBDA ev : ev \in {"START_OF_SPEECH", "END_OF_SPEECH"})

\* The flag and the number of events before the k-th callback.
SpeakingBefore(k) == IF k = 1 THEN FALSE ELSE sttCalls[k - 1].speaking

EventsBefore(k) == IF k = 1 THEN 0 ELSE sttCalls[k - 1].events

\* C26: whatever callbacks the backend delivers, the START_OF_SPEECH and
\* END_OF_SPEECH events sent alternate and begin with START_OF_SPEECH, every
\* transcript event comes after a START_OF_SPEECH with no END_OF_SPEECH in
\* between, and a result with an empty text sends no event and leaves the
\* speaking flag as it was.
C26_EventFraming ==
    /\ \A k \in 1..Len(Framing(Len(sttEvents))) :
          Framing(Len(sttEvents))[k] =
              (IF k % 2 = 1 THEN "START_OF_SPEECH" ELSE "END_OF_SPEECH")
    /\ \A i \in 1..Len(sttEvents) :
          sttEvents[i] \in {"INTERIM_TRANSCRIPT", "FINAL_TRANSCRIPT"}
              => Len(Framing(i)) % 2 = 1
    /\ \A k \in 1..Len(sttCalls) :
          (sttCalls[k].cb = "on_event" /\ sttCalls[k].text = "")
              => /\ sttCalls[k].events = EventsBefore(k)
                 /\ sttCalls[k].speaking = SpeakingBefore(k)

\* Speech started, ended and started again, with a result of empty text
\* among the callbacks.
C26_Witness ==
    /\ sttEvents = <<"START_OF_SPEECH", "INTERIM_TRANSCRIPT", "END_OF_SPEECH",
                     "START_OF_SPEECH", "FINAL_TRANSCRIPT">>
    /\ \E k \in 2..Len(sttCalls) :
          sttCalls[k].cb = "on_event" /\ sttCalls[k].text = "" /\ SpeakingBefore(k)
====
